---- MODULE Spec2Model ----
(***************************************************************************)
(* Model of the SRU search layer of deno-ndl: the CQL query builder and    *)
(* buildSimpleCQLQuery (src/src/utils/cql-builder.ts), the diagnostic      *)
(* classifier, the pagination calculator and the searchSRU orchestrator    *)
(* (src/src/api/sru.ts).                                                   *)
(*                                                                         *)
(* A JavaScript string is a sequence of one-character strings, so that     *)
(* includes, toLowerCase, trim, replace and comparison are computed        *)
(* character by character.  An optional value is a sequence of length 0    *)
(* (undefined) or 1.                                                       *)
(***************************************************************************)
EXTENDS Integers, Sequences, FiniteSets, TLC

VARIABLES
    cqlPc, cqlParams, cqlResult, cqlBuilder,
    diagPc, diagIn, diagOut,
    pagePc, pageResponse, pageRequest, pageOut,
    pc, searchParams, options, cqlQuery, sruParams, requests, fetchOutcome,
    parsed, structuredDiagnostics, items, pagination, result,
    escPc, escValue, escOut,
    bldPc, bldA, bldB, bldPrev, bldOp, bldNegated, bldSteps,
    valPc, valBuilder, valOut, bldChecked,
    navPc, navTotal, navFirst, navInfo, navPrev, navVisited,
    inv

cqlVars  == <<cqlPc, cqlParams, cqlResult, cqlBuilder>>
diagVars == <<diagPc, diagIn, diagOut>>
pageVars == <<pagePc, pageResponse, pageRequest, pageOut>>
sruVars  == <<pc, searchParams, options, cqlQuery, sruParams, requests,
              fetchOutcome, parsed, structuredDiagnostics, items, pagination, result>>
escVars  == <<escPc, escValue, escOut>>
opVars   == <<bldPc, bldA, bldB, bldPrev, bldOp, bldNegated, bldSteps, bldChecked>>
valVars  == <<valPc, valBuilder, valOut>>
bldVars  == <<escVars, opVars, valVars>>
navVars  == <<navPc, navTotal, navFirst, navInfo, navPrev, navVisited>>
invVars  == <<inv>>
vars     == <<cqlVars, diagVars, pageVars, sruVars, bldVars, navVars, invVars>>

-----------------------------------------------------------------------------
(* Optional values and JavaScript strings                                  *)

None == <<>>
Some(v) == <<v>>
IsSome(o) == Len(o) = 1
Val(o) == o[1]

Digits == {"0", "1", "2", "3", "4", "5", "6", "7", "8", "9"}
WhiteSpace == {" ", "\t", "\n"}

UpperLetters == <<"A","B","C","D","E","F","G","H","I","J","K","L","M",
                  "N","O","P","Q","R","S","T","U","V","W","X","Y","Z">>
LowerLetters == <<"a","b","c","d","e","f","g","h","i","j","k","l","m",
                  "n","o","p","q","r","s","t","u","v","w","x","y","z">>

\* String.prototype.toLowerCase, one character
LowerChar(c) ==
    IF \E i \in 1..Len(UpperLetters) : UpperLetters[i] = c
    THEN LowerLetters[CHOOSE i \in 1..Len(UpperLetters) : UpperLetters[i] = c]
    ELSE c

toLowerCase(s) == [i \in 1..Len(s) |-> LowerChar(s[i])]

\* String.prototype.includes
includes(s, sub) ==
    \E i \in 0..(Len(s) - Len(sub)) : SubSeq(s, i + 1, i + Len(sub)) = sub

\* String.prototype.trim
RECURSIVE trimStart(_)
trimStart(s) ==
    IF s # <<>> /\ s[1] \in WhiteSpace THEN trimStart(Tail(s)) ELSE s

RECURSIVE trimEnd(_)
trimEnd(s) ==
    IF s # <<>> /\ s[Len(s)] \in WhiteSpace
    THEN trimEnd(SubSeq(s, 1, Len(s) - 1)) ELSE s

trim(s) == trimEnd(trimStart(s))

\* Array.prototype.join
RECURSIVE join(_, _)
join(list, sep) ==
    IF list = <<>> THEN <<>>
    ELSE IF Len(list) = 1 THEN list[1]
    ELSE list[1] \o sep \o join(Tail(list), sep)

\* s.replace(/c/g, rep) for a single character c
RECURSIVE replaceAll(_, _, _)
replaceAll(s, c, rep) ==
    IF s = <<>> THEN <<>>
    ELSE (IF s[1] = c THEN rep ELSE <<s[1]>>) \o replaceAll(Tail(s), c, rep)

\* s.replace(/[chars]/g, "")
RECURSIVE removeChars(_, _)
removeChars(s, chars) ==
    IF s = <<>> THEN <<>>
    ELSE (IF s[1] \in chars THEN <<>> ELSE <<s[1]>>) \o removeChars(Tail(s), chars)

\* UTF-16 code unit order of the characters compared by the date checks
CodeUnitOrder == <<"-", "0", "1", "2", "3", "4", "5", "6", "7", "8", "9">>
CodeUnit(c) == CHOOSE i \in 1..Len(CodeUnitOrder) : CodeUnitOrder[i] = c

\* a <= b on JavaScript strings (lexicographic by code unit)
RECURSIVE strLeq(_, _)
strLeq(a, b) ==
    IF a = <<>> THEN TRUE
    ELSE IF b = <<>> THEN FALSE
    ELSE IF a[1] = b[1] THEN strLeq(Tail(a), Tail(b))
    ELSE CodeUnit(a[1]) < CodeUnit(b[1])

\* Literal fragments of the generated CQL text
QUOTE == "\""
BACKSLASH == "\\"
sAND == <<" ", "A", "N", "D", " ">>
sOR == <<" ", "O", "R", " ">>
sNOT == <<"N", "O", "T", " ">>
sTitle == <<"t", "i", "t", "l", "e">>
sCreator == <<"c", "r", "e", "a", "t", "o", "r">>
sSubject == <<"s", "u", "b", "j", "e", "c", "t">>
sPublisher == <<"p", "u", "b", "l", "i", "s", "h", "e", "r">>
sIsbn == <<"i", "s", "b", "n">>
sIssn == <<"i", "s", "s", "n">>
sLanguage == <<"l", "a", "n", "g", "u", "a", "g", "e">>
sType == <<"t", "y", "p", "e">>
sAnywhere == <<"a", "n", "y", "w", "h", "e", "r", "e">>
sDescription == <<"d", "e", "s", "c", "r", "i", "p", "t", "i", "o", "n">>
sFrom == <<"f", "r", "o", "m">>
sUntil == <<"u", "n", "t", "i", "l">>

-----------------------------------------------------------------------------
(* CQLQueryBuilder                                                         *)

\* CQLBuilderOptionsSchema defaults
DefaultOptions ==
    [defaultOperator |-> "AND", autoEscape |-> TRUE,
     addParentheses |-> TRUE, defaultTextOperator |-> "="]

\* new CQLQueryBuilder(options): an empty condition list
createCQLBuilder(opts) == [options |-> opts, conditions |-> <<>>]

\* ` ${this.options.defaultOperator} `
OperatorSep(b) ==
    IF b.options.defaultOperator = "AND" THEN sAND
    ELSE IF b.options.defaultOperator = "OR" THEN sOR
    ELSE <<" ">> \o sNOT

\* variant: the quote is escaped before the backslash
escapeValue_quoteFirst(value) ==
    replaceAll(
      replaceAll(
        replaceAll(
          replaceAll(value, QUOTE, <<BACKSLASH, QUOTE>>),
          BACKSLASH, <<BACKSLASH, BACKSLASH>>),
        "*", <<BACKSLASH, "*">>),
      "?", <<BACKSLASH, "?">>)

escapeValue(value) ==
    replaceAll(
      replaceAll(
        replaceAll(
          replaceAll(value, BACKSLASH, <<BACKSLASH, BACKSLASH>>),
          QUOTE, <<BACKSLASH, QUOTE>>),
        "*", <<BACKSLASH, "*">>),
      "?", <<BACKSLASH, "?">>)

buildFieldCondition(fieldName, value, operator) ==
    CASE operator \in {"=", "exact"} ->
           fieldName \o <<"=", QUOTE>> \o value \o <<QUOTE>>
      [] operator \in {"adj", "contains"} ->
           fieldName \o <<" ", "a", "d", "j", " ", QUOTE>> \o value \o <<QUOTE>>
      [] operator = "all" ->
           fieldName \o <<" ", "a", "l", "l", " ", QUOTE>> \o value \o <<QUOTE>>
      [] operator = "any" ->
           fieldName \o <<" ", "a", "n", "y", " ", QUOTE>> \o value \o <<QUOTE>>
      [] operator = "starts" ->
           fieldName \o <<"=", QUOTE>> \o value \o <<"*", QUOTE>>
      [] operator = "ends" ->
           fieldName \o <<"=", QUOTE, "*">> \o value \o <<QUOTE>>
      [] OTHER ->
           fieldName \o <<"=", QUOTE>> \o value \o <<QUOTE>>

field(b, fieldName, value, operator) ==
    IF trim(value) = <<>> THEN b
    ELSE [b EXCEPT !.conditions =
            Append(@, buildFieldCondition(
                        fieldName,
                        IF b.options.autoEscape THEN escapeValue(value) ELSE value,
                        operator))]

title(b, v) == field(b, sTitle, v, "=")
creator(b, v) == field(b, sCreator, v, "=")
subject(b, v) == field(b, sSubject, v, "=")
publisher(b, v) == field(b, sPublisher, v, "=")
isbn(b, v) == field(b, sIsbn, removeChars(v, {"-"} \cup WhiteSpace), "=")
issn(b, v) == field(b, sIssn, v, "=")
anywhere(b, text) == field(b, sAnywhere, text, b.options.defaultTextOperator)

\* languages: [isArray, codes]; a single code is wrapped into a one-element array
language(b, languages) ==
    LET langArray == languages.codes IN
    IF Len(langArray) = 1 THEN field(b, sLanguage, langArray[1], "=")
    ELSE LET langConditions ==
               [i \in 1..Len(langArray) |->
                  buildFieldCondition(sLanguage, langArray[i], "=")]
         IN [b EXCEPT !.conditions =
               Append(@, <<"(">> \o join(langConditions, sOR) \o <<")">>)]

\* /^\d{4}(-\d{2}-\d{2})?$/
IsDateString(s) ==
    /\ Len(s) \in {4, 10}
    /\ \A i \in 1..Len(s) :
         IF i \in {5, 8} THEN s[i] = "-" ELSE s[i] \in Digits

\* DateRangeSchema: both bounds optional and well formed, from <= to if both
DateRangeSchemaOk(range) ==
    /\ IsSome(range.from) => IsDateString(Val(range.from))
    /\ IsSome(range.to) => IsDateString(Val(range.to))
    /\ (IsSome(range.from) /\ Val(range.from) # <<>> /\
        IsSome(range.to) /\ Val(range.to) # <<>>)
         => strLeq(Val(range.from), Val(range.to))

\* dateRange(range); the throw on an invalid range is the empty option
dateRange(b, range) ==
    IF ~DateRangeSchemaOk(range) THEN None
    ELSE LET c1 == IF IsSome(range.from) /\ Val(range.from) # <<>>
                   THEN <<sFrom \o <<"=", QUOTE>> \o Val(range.from) \o <<QUOTE>>>>
                   ELSE <<>>
             c2 == IF IsSome(range.to) /\ Val(range.to) # <<>>
                   THEN <<sUntil \o <<"=", QUOTE>> \o Val(range.to) \o <<QUOTE>>>>
                   ELSE <<>>
             conds == c1 \o c2
         IN Some(IF conds = <<>> THEN b
                 ELSE [b EXCEPT !.conditions =
                         Append(@, IF Len(conds) = 1 THEN conds[1]
                                   ELSE <<"(">> \o join(conds, sAND) \o <<")">>)])

build(b) ==
    IF Len(b.conditions) = 0 THEN <<>>
    ELSE join(b.conditions, OperatorSep(b))

and(b, other) ==
    LET otherQuery == build(other) IN
    IF otherQuery # <<>> /\ Len(b.conditions) > 0
    THEN LET current == join(b.conditions, OperatorSep(b)) IN
         [b EXCEPT !.conditions =
            << IF b.options.addParentheses
               THEN <<"(">> \o current \o <<")">> ELSE current,
               IF b.options.addParentheses
               THEN <<"(">> \o otherQuery \o <<")">> ELSE otherQuery >>]
    ELSE IF otherQuery # <<>>
    THEN [b EXCEPT !.conditions = Append(@, otherQuery)]
    ELSE b

\* variant: the other side is appended instead of replacing the list
or_append(b, other) ==
    LET otherQuery == build(other) IN
    IF otherQuery # <<>>
    THEN [b EXCEPT !.conditions = Append(@, otherQuery)]
    ELSE b

or(b, other) ==
    LET otherQuery == build(other) IN
    IF otherQuery # <<>> /\ Len(b.conditions) > 0
    THEN LET current == join(b.conditions, OperatorSep(b)) IN
         [b EXCEPT !.conditions =
            << <<"(">> \o current \o <<")">> \o sOR \o
               <<"(">> \o otherQuery \o <<")">> >>]
    ELSE IF otherQuery # <<>>
    THEN [b EXCEPT !.conditions = Append(@, otherQuery)]
    ELSE b

\* variant: only the first accumulated condition is negated
not_firstOnly(b) ==
    IF Len(b.conditions) > 0
    THEN [b EXCEPT !.conditions =
            << sNOT \o <<"(">> \o b.conditions[1] \o <<")">> >> \o Tail(@)]
    ELSE b

not(b) ==
    IF Len(b.conditions) > 0
    THEN [b EXCEPT !.conditions =
            << sNOT \o <<"(">> \o join(b.conditions, OperatorSep(b)) \o <<")">> >>]
    ELSE b

-----------------------------------------------------------------------------
(* Errors and results (src/src/errors.ts, neverthrow)                      *)

NoCause == [kind |-> "none", diagnostic |-> None, status |-> 0]

\* NDLError: message is a fixed prefix (named here) followed by a text
NDLError(type, prefix, text, cause) ==
    [type |-> type, prefix |-> prefix, text |-> text, cause |-> cause]

validationError(prefix, cause) == NDLError("validation", prefix, <<>>, cause)

ok(v) == [isOk |-> TRUE, value |-> Some(v), error |-> None]
err(e) == [isOk |-> FALSE, value |-> None, error |-> Some(e)]

-----------------------------------------------------------------------------
(* SimpleSearchParams and buildSimpleCQLQuery                              *)

\* SimpleSearchParams is a JavaScript object: a mapping from keys to values
\* (None when the key is absent) and, in `order`, the insertion order of the
\* keys that are present.
ParamKeys == {"title", "creator", "subject", "publisher", "isbn", "issn", "jpno",
              "language", "dateRange", "type", "anywhere", "description", "exclude"}

NDLLanguageCodeSchema ==
    { <<"j","p","n">>, <<"e","n","g">>, <<"c","h","i">>, <<"k","o","r">>,
      <<"f","r","e">>, <<"g","e","r">>, <<"r","u","s">>, <<"s","p","a">>,
      <<"i","t","a">>, <<"p","o","r">> }

NDLMaterialTypeSchema ==
    { <<"B","o","o","k">>, <<"A","r","t","i","c","l","e">>,
      <<"J","o","u","r","n","a","l">>, <<"N","e","w","s","p","a","p","e","r">>,
      <<"T","h","e","s","i","s">>, <<"M","a","p">>, <<"M","u","s","i","c">>,
      <<"V","i","d","e","o">>, <<"S","o","u","n","d">>,
      <<"S","o","f","t","w","a","r","e">>, <<"W","e","b","s","i","t","e">>,
      <<"D","a","t","a","b","a","s","e">> }

\* /^[\d\-X]+$/
IsbnPatternOk(s) ==
    Len(s) >= 1 /\ \A i \in 1..Len(s) : s[i] \in Digits \cup {"-", "X"}

\* /^\d{4}-\d{3}[\dX]$/
IssnPatternOk(s) ==
    /\ Len(s) = 9
    /\ \A i \in 1..4 : s[i] \in Digits
    /\ s[5] = "-"
    /\ \A i \in 6..8 : s[i] \in Digits
    /\ s[9] \in Digits \cup {"X"}

LanguageSchemaOk(l) == \A i \in 1..Len(l.codes) : l.codes[i] \in NDLLanguageCodeSchema

ExcludeSchemaOk(ex) ==
    /\ IsSome(ex.language) => LanguageSchemaOk(Val(ex.language))
    /\ IsSome(ex.type) => Val(ex.type) \in NDLMaterialTypeSchema

\* a schema without the ISSN pattern
SimpleSearchParamsSchemaOk_noIssn(p) ==
    /\ IsSome(p.isbn) => IsbnPatternOk(Val(p.isbn))
    /\ IsSome(p.language) => LanguageSchemaOk(Val(p.language))
    /\ IsSome(p.dateRange) => DateRangeSchemaOk(Val(p.dateRange))
    /\ IsSome(p.type) => Val(p.type) \in NDLMaterialTypeSchema
    /\ IsSome(p.exclude) => ExcludeSchemaOk(Val(p.exclude))

SimpleSearchParamsSchemaOk(p) ==
    /\ IsSome(p.isbn) => IsbnPatternOk(Val(p.isbn))
    /\ IsSome(p.issn) => IssnPatternOk(Val(p.issn))
    /\ IsSome(p.language) => LanguageSchemaOk(Val(p.language))
    /\ IsSome(p.dateRange) => DateRangeSchemaOk(Val(p.dateRange))
    /\ IsSome(p.type) => Val(p.type) \in NDLMaterialTypeSchema
    /\ IsSome(p.exclude) => ExcludeSchemaOk(Val(p.exclude))

\* JavaScript truthiness of an optional string
Truthy(o) == IsSome(o) /\ Val(o) # <<>>

\* one `if (validatedParams.<key>) builder.<key>(...)` statement
ApplyField(b, p, key) ==
    CASE key = "title" -> IF Truthy(p.title) THEN title(b, Val(p.title)) ELSE b
      [] key = "creator" -> IF Truthy(p.creator) THEN creator(b, Val(p.creator)) ELSE b
      [] key = "subject" -> IF Truthy(p.subject) THEN subject(b, Val(p.subject)) ELSE b
      [] key = "publisher" ->
           IF Truthy(p.publisher) THEN publisher(b, Val(p.publisher)) ELSE b
      [] key = "isbn" -> IF Truthy(p.isbn) THEN isbn(b, Val(p.isbn)) ELSE b
      [] key = "issn" -> IF Truthy(p.issn) THEN issn(b, Val(p.issn)) ELSE b
      [] key = "language" ->
           IF IsSome(p.language) THEN language(b, Val(p.language)) ELSE b
      [] key = "dateRange" ->
           IF IsSome(p.dateRange) THEN Val(dateRange(b, Val(p.dateRange))) ELSE b
      [] key = "type" -> IF Truthy(p.type) THEN field(b, sType, Val(p.type), "=") ELSE b
      [] key = "anywhere" ->
           IF Truthy(p.anywhere) THEN anywhere(b, Val(p.anywhere)) ELSE b
      [] key = "description" ->
           IF Truthy(p.description)
           THEN field(b, sDescription, Val(p.description), "=") ELSE b
      [] OTHER -> b

RECURSIVE ApplyFields(_, _, _)
ApplyFields(b, p, keys) ==
    IF keys = <<>> THEN b
    ELSE ApplyFields(ApplyField(b, p, keys[1]), p, Tail(keys))

\* the order of the `if` statements of buildSimpleCQLQuery
FieldOrder == <<"title", "creator", "subject", "publisher", "isbn", "issn",
                "language", "dateRange", "type", "anywhere", "description">>

\* a builder that visits the fields in the order the caller wrote them
MainBuilder_inputOrder(p) == ApplyFields(createCQLBuilder(DefaultOptions), p, p.order)

\* the main builder after the eleven `if` statements
MainBuilder(p) == ApplyFields(createCQLBuilder(DefaultOptions), p, FieldOrder)

\* the exclude builder: title, creator, language, type
ExcludeBuilder(ex) ==
    LET b0 == createCQLBuilder(DefaultOptions)
        b1 == IF Truthy(ex.title) THEN title(b0, Val(ex.title)) ELSE b0
        b2 == IF Truthy(ex.creator) THEN creator(b1, Val(ex.creator)) ELSE b1
        b3 == IF IsSome(ex.language) THEN language(b2, Val(ex.language)) ELSE b2
        b4 == IF Truthy(ex.type) THEN field(b3, sType, Val(ex.type), "=") ELSE b3
    IN b4

\* a translator that combines the exclude builder without negating it
FinalBuilder_noNegation(p) ==
    LET builder == MainBuilder(p) IN
    IF IsSome(p.exclude)
    THEN LET excludeBuilder == ExcludeBuilder(Val(p.exclude)) IN
         IF build(excludeBuilder) # <<>>
         THEN and(builder, excludeBuilder)
         ELSE builder
    ELSE builder

\* the builder at the `return ok(builder.build())` statement
FinalBuilder(p) ==
    LET builder == MainBuilder(p) IN
    IF IsSome(p.exclude)
    THEN LET excludeBuilder == ExcludeBuilder(Val(p.exclude)) IN
         IF build(excludeBuilder) # <<>>
         THEN and(builder, not(excludeBuilder))
         ELSE builder
    ELSE builder

\* a translator that rejects an input from which no condition results
SimpleCQLRun_requireField(p) ==
    IF ~SimpleSearchParamsSchemaOk(p) \/ build(FinalBuilder(p)) = <<>>
    THEN [result |-> err(validationError("invalid-search-params",
                                         [NoCause EXCEPT !.kind = "zod"])),
          builder |-> None]
    ELSE [result |-> ok(build(FinalBuilder(p))), builder |-> Some(FinalBuilder(p))]

\* one run of buildSimpleCQLQuery: its result, and the builder it created (None
\* when it returned before createCQLBuilder)
SimpleCQLRun(p) ==
    IF ~SimpleSearchParamsSchemaOk(p)
    THEN [result |-> err(validationError("invalid-search-params",
                                         [NoCause EXCEPT !.kind = "zod"])),
          builder |-> None]
    ELSE [result |-> ok(build(FinalBuilder(p))), builder |-> Some(FinalBuilder(p))]

buildSimpleCQLQuery(p) == SimpleCQLRun(p).result

-----------------------------------------------------------------------------
(* Inputs of buildSimpleCQLQuery                                           *)

\* at most this many keys are present in a generated SimpleSearchParams
MaxFields == 3

sJpn == <<"j", "p", "n">>
sEng == <<"e", "n", "g">>
sBook == <<"B", "o", "o", "k">>
s2020 == <<"2", "0", "2", "0">>
s2023 == <<"2", "0", "2", "3">>

LangOne(c) == [isArray |-> FALSE, codes |-> <<c>>]
LangMany(cs) == [isArray |-> TRUE, codes |-> cs]

NoExclude == [title |-> None, creator |-> None, subject |-> None,
              language |-> None, type |-> None]

\* the values tried for each key
Cand(k) ==
    CASE k = "title" -> << Some(<<"X">>), Some(<<" ">>), Some(<<"a", QUOTE>>) >>
      [] k = "creator" -> << Some(<<"Y">>), Some(<<>>) >>
      [] k = "subject" -> << Some(<<"S">>) >>
      [] k = "publisher" -> << Some(<<"P">>) >>
      [] k = "isbn" -> << Some(<<"9", "-", "7", "X">>), Some(<<"i", "-", "1">>) >>
      [] k = "issn" -> << Some(<<"1","2","3","4","-","5","6","7","X">>),
                          Some(<<"1", "2">>) >>
      [] k = "jpno" -> << Some(<<"J">>) >>
      [] k = "language" -> << Some(LangOne(sJpn)), Some(LangMany(<<sJpn, sEng>>)),
                              Some(LangMany(<<>>)), Some(LangOne(<<"x", "x">>)) >>
      [] k = "dateRange" -> << Some([from |-> Some(s2020), to |-> Some(s2023)]),
                               Some([from |-> Some(s2023), to |-> Some(s2020)]),
                               Some([from |-> Some(s2020), to |-> None]),
                               Some([from |-> None, to |-> Some(s2023)]) >>
      [] k = "type" -> << Some(sBook) >>
      [] k = "anywhere" -> << Some(<<"A">>) >>
      [] k = "description" -> << Some(<<"D">>) >>
      [] k = "exclude" -> << Some(NoExclude),
                             Some([NoExclude EXCEPT !.language = Some(LangOne(sEng))]),
                             Some([NoExclude EXCEPT !.subject = Some(<<"S">>)]),
                             Some([NoExclude EXCEPT !.title = Some(<<"T">>),
                                                    !.creator = Some(<<"C">>)]) >>

\* the object with the keys of S, key k holding Cand(k)[g[k]], written in `order`
MkParams(S, g, order) ==
    LET V(k) == IF k \in S THEN Cand(k)[g[k]] ELSE None IN
    [title |-> V("title"), creator |-> V("creator"), subject |-> V("subject"),
     publisher |-> V("publisher"), isbn |-> V("isbn"), issn |-> V("issn"),
     jpno |-> V("jpno"), language |-> V("language"), dateRange |-> V("dateRange"),
     type |-> V("type"), anywhere |-> V("anywhere"),
     description |-> V("description"), exclude |-> V("exclude"), order |-> order]

\* the insertion orders tried for the keys in S: every rotation of the keys in
\* schema order and in reverse schema order (all orders, for up to three keys)
SchemaKeyOrder == <<"title", "creator", "subject", "publisher", "isbn", "issn", "jpno",
                    "language", "dateRange", "type", "anywhere", "description",
                    "exclude">>
KeyOrders(S) ==
    LET inS(k) == k \in S
        fwd == SelectSeq(SchemaKeyOrder, inS)
        n == Len(fwd)
        rev == [i \in 1..n |-> fwd[n + 1 - i]]
        rot(q, r) == [i \in 1..n |-> q[((i + r - 1) % n) + 1]]
    IN IF n = 0 THEN { <<>> }
       ELSE { rot(fwd, r) : r \in 0..(n - 1) } \cup { rot(rev, r) : r \in 0..(n - 1) }

CandChoices(S) ==
    IF S = {} THEN { <<>> }
    ELSE LET most == CHOOSE n \in { Len(Cand(k)) : k \in S } :
                       \A k \in S : Len(Cand(k)) <= n
         IN { g \in [S -> 1..most] : \A k \in S : g[k] <= Len(Cand(k)) }

PendingResult == [isOk |-> FALSE, value |-> None, error |-> None]

-----------------------------------------------------------------------------
(* Diagnostic classifier: analyzeSRUDiagnostics                            *)

sSyntax == <<"s", "y", "n", "t", "a", "x">>
sQuerySyntax == <<"q", "u", "e", "r", "y", "/">> \o sSyntax
sQueryFeature == <<"q", "u", "e", "r", "y", "/", "f", "e", "a", "t", "u", "r", "e">>
sUnsupported == <<"u", "n", "s", "u", "p", "p", "o", "r", "t", "e", "d">>
sResult == <<"r", "e", "s", "u", "l", "t">>
sResultset == sResult \o <<"s", "e", "t">>

HexDigits == <<"0","1","2","3","4","5","6","7","8","9","a","b","c","d","e","f">>
DigitValue(c, radix) ==
    LET lc == LowerChar(c) IN
    IF \E i \in 1..radix : HexDigits[i] = lc
    THEN (CHOOSE i \in 1..radix : HexDigits[i] = lc) - 1
    ELSE -1

\* the value of the longest prefix of s made of digits of the radix; None if empty
RECURSIVE ParseDigits(_, _, _, _)
ParseDigits(s, radix, acc, seen) ==
    IF s # <<>> /\ DigitValue(s[1], radix) >= 0
    THEN ParseDigits(Tail(s), radix, acc * radix + DigitValue(s[1], radix), TRUE)
    ELSE IF seen THEN Some(acc) ELSE None

\* parseInt(s) with no radix argument; None is NaN
parseInt(s) ==
    LET t == trimStart(s)
        neg == t # <<>> /\ t[1] = "-"
        u == IF t # <<>> /\ t[1] \in {"-", "+"} THEN Tail(t) ELSE t
        hex == Len(u) >= 2 /\ u[1] = "0" /\ u[2] \in {"x", "X"}
        r == IF hex THEN ParseDigits(Tail(Tail(u)), 16, 0, FALSE)
             ELSE ParseDigits(u, 10, 0, FALSE)
    IN IF IsSome(r) /\ neg THEN Some(0 - Val(r)) ELSE r

\* diagnostic.uri || ""
UriOf(d) == IF IsSome(d.uri) THEN Val(d.uri) ELSE <<>>

DiagCause(d) == [kind |-> "diagnostic", diagnostic |-> Some(d), status |-> 0]

querySyntaxError(prefix, text, d) == NDLError("query_syntax", prefix, text, DiagCause(d))
sruDiagnosticError(prefix, text, d) ==
    NDLError("sru_diagnostic", prefix, text, DiagCause(d))

\* a loop body that tests the numeric code before the markers
ClassifyOne_codeFirst(d) ==
    LET uri == UriOf(d)
        message == d.message
    IN IF Truthy(d.code) /\ IsSome(parseInt(Val(d.code)))
          /\ Val(parseInt(Val(d.code))) >= 10
       THEN Some(sruDiagnosticError("search-error-code", message, d))
       ELSE IF includes(uri, sQuerySyntax) \/ includes(toLowerCase(message), sSyntax)
       THEN Some(querySyntaxError("cql-syntax-error", message, d))
       ELSE IF includes(uri, sQueryFeature)
               \/ includes(toLowerCase(message), sUnsupported)
       THEN Some(querySyntaxError("unsupported-feature", message, d))
       ELSE IF includes(uri, sResultset) \/ includes(toLowerCase(message), sResult)
       THEN Some(sruDiagnosticError("result-processing-error", message, d))
       ELSE None

\* the body of the for loop: the error returned for this diagnostic, or None
ClassifyOne(d) ==
    LET uri == UriOf(d)
        message == d.message
    IN IF includes(uri, sQuerySyntax) \/ includes(toLowerCase(message), sSyntax)
       THEN Some(querySyntaxError("cql-syntax-error", message, d))
       ELSE IF includes(uri, sQueryFeature)
               \/ includes(toLowerCase(message), sUnsupported)
       THEN Some(querySyntaxError("unsupported-feature", message, d))
       ELSE IF includes(uri, sResultset) \/ includes(toLowerCase(message), sResult)
       THEN Some(sruDiagnosticError("result-processing-error", message, d))
       ELSE IF Truthy(d.code) /\ IsSome(parseInt(Val(d.code)))
               /\ Val(parseInt(Val(d.code))) >= 10
       THEN Some(sruDiagnosticError("search-error-code", message, d))
       ELSE None

\* for (const diagnostic of diagnostics) { ... return ... }
RECURSIVE ScanDiagnostics(_)
ScanDiagnostics(ds) ==
    IF ds = <<>> THEN None
    ELSE IF IsSome(ClassifyOne(ds[1])) THEN ClassifyOne(ds[1])
    ELSE ScanDiagnostics(Tail(ds))

\* a classifier whose generic fallback is built from the last diagnostic
analyzeSRUDiagnostics_lastFallback(diagnostics) ==
    IF ~IsSome(diagnostics) \/ Val(diagnostics) = <<>> THEN None
    ELSE LET ds == Val(diagnostics)
             found == ScanDiagnostics(ds)
         IN IF IsSome(found) THEN found
            ELSE Some(sruDiagnosticError("search-processing-error",
                                         ds[Len(ds)].message, ds[Len(ds)]))

\* a classifier without the generic fallback
analyzeSRUDiagnostics_noFallback(diagnostics) ==
    IF ~IsSome(diagnostics) \/ Val(diagnostics) = <<>> THEN None
    ELSE ScanDiagnostics(Val(diagnostics))

\* diagnostics: None (undefined) or Some(list); the result None is null
analyzeSRUDiagnostics(diagnostics) ==
    IF ~IsSome(diagnostics) \/ Val(diagnostics) = <<>> THEN None
    ELSE LET ds == Val(diagnostics)
             found == ScanDiagnostics(ds)
         IN IF IsSome(found) THEN found
            ELSE Some(sruDiagnosticError("search-processing-error",
                                         ds[1].message, ds[1]))

-----------------------------------------------------------------------------
(* Pagination calculator: extractSRUPaginationInfo                         *)

\* o || d for an optional number
OrDefault(o, d) == IF IsSome(o) /\ Val(o) # 0 THEN Val(o) ELSE d

DefaultMaximumRecords == 10
DefaultStartRecord == 1

\* Math.floor(a / b) and Math.ceil(a / b) for b > 0
FloorDiv(a, b) == a \div b
CeilDiv(a, b) == 0 - ((0 - a) \div b)

Max(a, b) == IF a >= b THEN a ELSE b

PageParams(startRecord, maximumRecords) ==
    [startRecord |-> startRecord, maximumRecords |-> maximumRecords]

\* a calculator whose next page starts one record further
extractSRUPaginationInfo_nextByOne(response, requestParams) ==
    IF response.type # "searchRetrieve"
    THEN [totalResults |-> 0, currentPage |-> 1, totalPages |-> 0,
          itemsPerPage |-> OrDefault(requestParams.maximumRecords, DefaultMaximumRecords),
          startIndex |-> OrDefault(requestParams.startRecord, DefaultStartRecord),
          nextRecordPosition |-> None, resultSetId |-> None,
          hasPreviousPage |-> FALSE, hasNextPage |-> FALSE,
          nextPageParams |-> None, previousPageParams |-> None]
    ELSE
    LET totalResults == OrDefault(response.numberOfRecords, 0)
        itemsPerPage == OrDefault(requestParams.maximumRecords, DefaultMaximumRecords)
        startIndex == OrDefault(requestParams.startRecord, DefaultStartRecord)
        currentPage == FloorDiv(startIndex - 1, itemsPerPage) + 1
        totalPages == CeilDiv(totalResults, itemsPerPage)
    IN [totalResults |-> totalResults, currentPage |-> currentPage,
        totalPages |-> totalPages, itemsPerPage |-> itemsPerPage,
        startIndex |-> startIndex,
        nextRecordPosition |-> response.nextRecordPosition,
        resultSetId |-> response.resultSetId,
        hasPreviousPage |-> currentPage > 1,
        hasNextPage |-> currentPage < totalPages,
        nextPageParams |->
          IF currentPage < totalPages
          THEN Some(PageParams(startIndex + 1, itemsPerPage)) ELSE None,
        previousPageParams |->
          IF currentPage > 1
          THEN Some(PageParams(Max(1, startIndex - itemsPerPage), itemsPerPage))
          ELSE None]

\* a calculator that still offers a next page on the last page
extractSRUPaginationInfo_nextThroughLast(response, requestParams) ==
    IF response.type # "searchRetrieve"
    THEN [totalResults |-> 0, currentPage |-> 1, totalPages |-> 0,
          itemsPerPage |-> OrDefault(requestParams.maximumRecords, DefaultMaximumRecords),
          startIndex |-> OrDefault(requestParams.startRecord, DefaultStartRecord),
          nextRecordPosition |-> None, resultSetId |-> None,
          hasPreviousPage |-> FALSE, hasNextPage |-> FALSE,
          nextPageParams |-> None, previousPageParams |-> None]
    ELSE
    LET totalResults == OrDefault(response.numberOfRecords, 0)
        itemsPerPage == OrDefault(requestParams.maximumRecords, DefaultMaximumRecords)
        startIndex == OrDefault(requestParams.startRecord, DefaultStartRecord)
        currentPage == FloorDiv(startIndex - 1, itemsPerPage) + 1
        totalPages == CeilDiv(totalResults, itemsPerPage)
        hasPreviousPage == currentPage > 1
        hasNextPage == currentPage <= totalPages
    IN [totalResults |-> totalResults, currentPage |-> currentPage,
        totalPages |-> totalPages, itemsPerPage |-> itemsPerPage,
        startIndex |-> startIndex,
        nextRecordPosition |-> response.nextRecordPosition,
        resultSetId |-> response.resultSetId,
        hasPreviousPage |-> hasPreviousPage,
        hasNextPage |-> hasNextPage,
        nextPageParams |->
          IF hasNextPage
          THEN Some(PageParams(startIndex + itemsPerPage, itemsPerPage)) ELSE None,
        previousPageParams |->
          IF hasPreviousPage
          THEN Some(PageParams(Max(1, startIndex - itemsPerPage), itemsPerPage))
          ELSE None]

\* extractSRUPaginationInfo: the fixed state for a response that is not a
\* searchRetrieve response, the page arithmetic otherwise
extractSRUPaginationInfo(response, requestParams) ==
    IF response.type # "searchRetrieve"
    THEN [totalResults |-> 0, currentPage |-> 1, totalPages |-> 0,
          itemsPerPage |-> OrDefault(requestParams.maximumRecords, DefaultMaximumRecords),
          startIndex |-> OrDefault(requestParams.startRecord, DefaultStartRecord),
          nextRecordPosition |-> None, resultSetId |-> None,
          hasPreviousPage |-> FALSE, hasNextPage |-> FALSE,
          nextPageParams |-> None, previousPageParams |-> None]
    ELSE
    LET totalResults == OrDefault(response.numberOfRecords, 0)
        itemsPerPage == OrDefault(requestParams.maximumRecords, DefaultMaximumRecords)
        startIndex == OrDefault(requestParams.startRecord, DefaultStartRecord)
        currentPage == FloorDiv(startIndex - 1, itemsPerPage) + 1
        totalPages == CeilDiv(totalResults, itemsPerPage)
        hasPreviousPage == currentPage > 1
        hasNextPage == currentPage < totalPages
    IN [totalResults |-> totalResults, currentPage |-> currentPage,
        totalPages |-> totalPages, itemsPerPage |-> itemsPerPage,
        startIndex |-> startIndex,
        nextRecordPosition |-> response.nextRecordPosition,
        resultSetId |-> response.resultSetId,
        hasPreviousPage |-> hasPreviousPage,
        hasNextPage |-> hasNextPage,
        nextPageParams |->
          IF hasNextPage
          THEN Some(PageParams(startIndex + itemsPerPage, itemsPerPage)) ELSE None,
        previousPageParams |->
          IF hasPreviousPage
          THEN Some(PageParams(Max(1, startIndex - itemsPerPage), itemsPerPage))
          ELSE None]

-----------------------------------------------------------------------------
(* Item extraction, client-side filtering and sorting                      *)

sUnknownTitle == <<"U","n","k","n","o","w","n"," ","T","i","t","l","e">>

\* extractSRUSearchItems: a record is given by the fields its recordData yields
ExtractItem(record) ==
    [title |-> IF Truthy(record.title) THEN Val(record.title) ELSE sUnknownTitle,
     creators |-> IF record.creators # <<>> THEN Some(record.creators) ELSE None,
     date |-> IF Truthy(record.date) THEN record.date ELSE None,
     language |-> IF Truthy(record.language) THEN record.language ELSE None,
     identifier |-> IF Truthy(record.identifier) THEN record.identifier ELSE None]

extractSRUSearchItems(response) ==
    IF response.type # "searchRetrieve" THEN <<>>
    ELSE [i \in 1..Len(response.records) |-> ExtractItem(response.records[i])]

\* date.match(/(\d{4})/)?.[1]: the first four consecutive digits
FirstYear(date) ==
    LET starts == { i \in 1..(Len(date) - 3) :
                      \A j \in i..(i + 3) : date[j] \in Digits }
    IN IF starts = {} THEN None
       ELSE LET i == CHOOSE k \in starts : \A m \in starts : k <= m
            IN Some(SubSeq(date, i, i + 3))

\* a < b on JavaScript strings
strLt(a, b) == strLeq(a, b) /\ a # b

LanguageKeep(languages, item) ==
    Truthy(item.language)
    /\ \E i \in 1..Len(languages.codes) : languages.codes[i] = Val(item.language)

DateRangeKeep(range, item) ==
    IF ~Truthy(item.date) THEN TRUE
    ELSE LET year == FirstYear(Val(item.date)) IN
         IF ~IsSome(year) THEN TRUE
         ELSE IF Truthy(range.from) /\ strLt(Val(year), Val(range.from)) THEN FALSE
         ELSE IF Truthy(range.to) /\ strLt(Val(range.to), Val(year)) THEN FALSE
         ELSE TRUE

CreatorKeep(text, item) ==
    IsSome(item.creators)
    /\ \E i \in 1..Len(Val(item.creators)) :
         includes(toLowerCase(Val(item.creators)[i]), toLowerCase(text))

\* the `if (options?.filter)` block; SelectSeq is Array.prototype.filter
ApplyFilter(f, list) ==
    LET keepLang(item) == LanguageKeep(Val(f.language), item)
        keepDate(item) == DateRangeKeep(Val(f.dateRange), item)
        keepCreator(item) == CreatorKeep(Val(f.creator), item)
        l1 == IF IsSome(f.language)
                 /\ (Val(f.language).isArray \/ Val(f.language).codes # << <<>> >>)
              THEN SelectSeq(list, keepLang) ELSE list
        l2 == IF IsSome(f.dateRange) THEN SelectSeq(l1, keepDate) ELSE l1
        l3 == IF Truthy(f.creator) THEN SelectSeq(l2, keepCreator) ELSE l2
    IN l3

\* localeCompare: primary order of the characters that occur in the item pool
\* (space, hyphen, digits, letters), case as the tie break (lower case first)
CollationOrder == <<" ", "-", "0", "1", "2", "3", "4", "5", "6", "7", "8", "9">>
                  \o LowerLetters
CollationKey(c) == CHOOSE i \in 1..Len(CollationOrder) : CollationOrder[i] = c

RECURSIVE PrimaryCompare(_, _)
PrimaryCompare(a, b) ==
    IF a = <<>> /\ b = <<>> THEN 0
    ELSE IF a = <<>> THEN -1
    ELSE IF b = <<>> THEN 1
    ELSE IF a[1] = b[1] THEN PrimaryCompare(Tail(a), Tail(b))
    ELSE IF CollationKey(a[1]) < CollationKey(b[1]) THEN -1 ELSE 1

RECURSIVE CaseCompare(_, _)
CaseCompare(a, b) ==
    IF a = <<>> \/ b = <<>> THEN 0
    ELSE IF a[1] = b[1] THEN CaseCompare(Tail(a), Tail(b))
    ELSE IF LowerChar(a[1]) = a[1] THEN -1 ELSE 1

localeCompare(a, b) ==
    LET primary == PrimaryCompare(toLowerCase(a), toLowerCase(b)) IN
    IF primary # 0 THEN primary ELSE CaseCompare(a, b)

sYear0 == <<"0", "0", "0", "0">>

YearOf(item) ==
    IF Truthy(item.date) /\ IsSome(FirstYear(Val(item.date)))
    THEN Val(FirstYear(Val(item.date))) ELSE sYear0

FirstCreator(item) ==
    IF IsSome(item.creators) /\ Val(item.creators)[1] # <<>>
    THEN Val(item.creators)[1] ELSE <<>>

\* the comparator handed to Array.prototype.sort
SortComparison(sortBy, a, b) ==
    LET comparison ==
          CASE sortBy.field = "title" -> localeCompare(a.title, b.title)
            [] sortBy.field = "creator" -> localeCompare(FirstCreator(a), FirstCreator(b))
            [] sortBy.field = "date" -> localeCompare(YearOf(a), YearOf(b))
            [] OTHER -> 0
    IN IF sortBy.order = "desc" THEN 0 - comparison ELSE comparison

\* Array.prototype.sort is stable: insertion after the last element not greater
RECURSIVE InsertSorted(_, _, _)
InsertSorted(sorted, x, sortBy) ==
    IF sorted = <<>> THEN <<x>>
    ELSE IF SortComparison(sortBy, sorted[Len(sorted)], x) <= 0
    THEN Append(sorted, x)
    ELSE Append(InsertSorted(SubSeq(sorted, 1, Len(sorted) - 1), x, sortBy),
                sorted[Len(sorted)])

RECURSIVE SortItems(_, _)
SortItems(list, sortBy) ==
    IF list = <<>> THEN <<>>
    ELSE InsertSorted(SortItems(SubSeq(list, 1, Len(list) - 1), sortBy),
                      list[Len(list)], sortBy)

-----------------------------------------------------------------------------
(* Request validation and the transport boundary                           *)

SRURecordSchemaSchema ==
    {"info:srw/schema/1/dc-v1.1", "info:srw/schema/1/mods-v3.0",
     "http://www.loc.gov/mods/v3", "info:srw/schema/1/marcxml-v1.1",
     "http://www.loc.gov/MARC21/slim", "dcndl", "dcterms"}
SRUVersionSchema == {"1.1", "1.2"}
MaxMaximumRecords == 500

\* safeParse(SRUSearchRetrieveRequestSchema, params) succeeds
SRUSearchRetrieveRequestSchemaOk(params) ==
    /\ params.operation \in {"searchRetrieve", "explain"}
    /\ Len(params.query) >= 1
    /\ IsSome(params.startRecord) => Val(params.startRecord) > 0
    /\ IsSome(params.maximumRecords) =>
         (Val(params.maximumRecords) > 0 /\ Val(params.maximumRecords) <= MaxMaximumRecords)
    /\ params.recordSchema \in SRURecordSchemaSchema
    /\ params.version \in SRUVersionSchema

\* response.ok
ResponseOk(status) == status >= 200 /\ status <= 299

StatusCause(status) == [kind |-> "status", diagnostic |-> None, status |-> status]
ExceptionCause == [kind |-> "exception", diagnostic |-> None, status |-> 0]

\* the user message chosen by the switch on response.status
ApiMessage(status) ==
    CASE status = 400 -> "bad-request"
      [] status = 401 -> "authentication-required"
      [] status = 403 -> "access-denied"
      [] status = 404 -> "endpoint-not-found"
      [] status = 500 -> "server-error"
      [] status \in {502, 503, 504} -> "service-unavailable"
      [] OTHER -> "request-failed-with-status"

\* the error returned for a response that is not ok
NotOkError(status) ==
    IF status = 429
    THEN NDLError("rate_limit", "rate-limited", <<>>, StatusCause(status))
    ELSE NDLError("api", ApiMessage(status), <<>>, StatusCause(status))

\* the error returned by the catch block
CaughtError(kind) ==
    IF kind = "TypeError-fetch"
    THEN NDLError("network", "network-error", <<>>, ExceptionCause)
    ELSE NDLError("api", "unexpected-error", <<>>, StatusCause(0))

-----------------------------------------------------------------------------
(* searchSRU                                                               *)

NoOptions == [maximumRecords |-> None, startRecord |-> None, recordSchema |-> None,
              version |-> None, sortBy |-> None, filter |-> None]

\* options?.<field>
OptionField(o, name) == IF IsSome(o) THEN Val(o)[name] ELSE None

\* options?.recordSchema || "dcndl", options?.version || "1.2"
OrDefaultString(o, d) == IF IsSome(o) /\ Val(o) # "" THEN Val(o) ELSE d

\* the response returned for an empty query
EmptyResponse(o) ==
    [items |-> <<>>,
     pagination |->
       [totalResults |-> 0, currentPage |-> 1, totalPages |-> 0,
        itemsPerPage |-> OrDefault(OptionField(o, "maximumRecords"), DefaultMaximumRecords),
        startIndex |-> OrDefault(OptionField(o, "startRecord"), DefaultStartRecord),
        nextRecordPosition |-> None, resultSetId |-> None,
        hasPreviousPage |-> FALSE, hasNextPage |-> FALSE,
        nextPageParams |-> None, previousPageParams |-> None],
     query |-> [cql |-> <<>>,
                schema |-> OrDefaultString(OptionField(o, "recordSchema"), "dcndl")],
     diagnostics |-> None]

\* the request built from the query and the options
BuildSRUParams(query, o) ==
    [operation |-> "searchRetrieve",
     query |-> query,
     maximumRecords |->
       Some(OrDefault(OptionField(o, "maximumRecords"), DefaultMaximumRecords)),
     startRecord |-> Some(OrDefault(OptionField(o, "startRecord"), DefaultStartRecord)),
     recordSchema |-> OrDefaultString(OptionField(o, "recordSchema"), "dcndl"),
     version |-> OrDefaultString(OptionField(o, "version"), "1.2")]

\* diagnosticArray?.map(d => ({uri, code, message, details}))
StructuredDiagnostics(response) ==
    IF IsSome(response.diagnostics)
    THEN Some([i \in 1..Len(Val(response.diagnostics)) |->
                 [uri |-> Val(response.diagnostics)[i].uri,
                  code |-> Val(response.diagnostics)[i].code,
                  message |-> Val(response.diagnostics)[i].message,
                  details |-> Val(response.diagnostics)[i].details]])
    ELSE None

\* the client-side filter and sort of searchSRU
FilterAndSort(o, list) ==
    LET filtered == IF IsSome(OptionField(o, "filter"))
                    THEN ApplyFilter(Val(OptionField(o, "filter")), list) ELSE list
    IN IF IsSome(OptionField(o, "sortBy"))
       THEN SortItems(filtered, Val(OptionField(o, "sortBy"))) ELSE filtered

-----------------------------------------------------------------------------
(* Input pools                                                             *)

Diag(uri, code, message) ==
    [uri |-> uri, code |-> code, message |-> message, details |-> None]

sM == <<"m">>
s15 == <<"1", "5">>

DSyntaxMsg == Diag(None, None, <<"S", "y", "n", "t", "a", "x">>)
DSyntaxUri == Diag(Some(sQuerySyntax), Some(<<"1">>), sM)
DFeatureUri == Diag(Some(sQueryFeature), None, sM)
DUnsupportedMsg == Diag(None, None, <<"U","N","S","U","P","P","O","R","T","E","D">>)
DResultsetUri == Diag(Some(sResultset), None, sM)
DResultMsg == Diag(None, None, <<"n", "o", " ">> \o sResult)
DCode15 == Diag(None, Some(s15), sM)
DCode7 == Diag(None, Some(<<"7">>), sM)
DPlain == Diag(None, None, <<"p">>)
DUpperUri == Diag(Some(<<"Q","u","e","r","y","/","S","y","n","t","a","x">>),
                  Some(<<"9">>), sM)
DAllMarkers == Diag(Some(sResultset), Some(s15),
                    sUnsupported \o <<" ">> \o sSyntax)
DFeatureResult == Diag(Some(sResultset), Some(<<"2", "0">>), sUnsupported)
DCodeNaN == Diag(None, Some(<<"a", "b">>), <<"q">>)
DCodeHex == Diag(None, Some(<<"0", "x", "A">>), sM)

DiagPool == {DSyntaxMsg, DSyntaxUri, DFeatureUri, DUnsupportedMsg, DResultsetUri,
             DResultMsg, DCode15, DCode7, DPlain, DUpperUri, DAllMarkers,
             DFeatureResult, DCodeNaN, DCodeHex}

\* the longest diagnostics list handed to the classifier
MaxDiags == 2

DiagInputs ==
    {None} \cup { Some(l) : l \in UNION { [1..n -> DiagPool] : n \in 0..MaxDiags } }

\* bounds of the pagination inputs
MaxTotal == 9
MaxPerPage == 4
MaxStart == 11

OptNat(n) == {None} \cup { Some(i) : i \in 0..n }

Response(type, numberOfRecords, diagnostics, records) ==
    [type |-> type, numberOfRecords |-> numberOfRecords,
     nextRecordPosition |-> None, resultSetId |-> None,
     diagnostics |-> diagnostics, records |-> records]

PageRequest(maximumRecords, startRecord) ==
    [maximumRecords |-> maximumRecords, startRecord |-> startRecord]

Record(t, creators, date, lang) ==
    [title |-> t, creators |-> creators, date |-> date, language |-> lang,
     identifier |-> None]

RecNeko == Record(Some(<<"n", "e", "k", "o">>), << <<"S", "o", "s", "e", "k", "i">> >>,
                  Some(<<"1","9","0","5">>), Some(sJpn))
RecBotchan == Record(Some(<<"b", "o">>), << <<"s", "o">>, <<"k", "a">> >>,
                     Some(<<"1","9","0","6","-","0","4","-","0","1">>), Some(sEng))
RecBare == Record(None, <<>>, None, None)

RecordLists == { <<>>, <<RecNeko, RecBotchan>>, <<RecBotchan, RecBare, RecNeko>> }

ResponseDiagnostics ==
    { None, Some(<<>>), Some(<<DSyntaxMsg>>), Some(<<DPlain>>),
      Some(<<DCode7, DCode15>>) }

ResponsePool ==
    { Response("searchRetrieve", n, ds, rs) :
        n \in {None, Some(0), Some(5)}, ds \in ResponseDiagnostics, rs \in RecordLists }
    \cup { Response("explain", None, None, <<>>) }

NoFilter == [language |-> None, dateRange |-> None, creator |-> None]

FilterPool ==
    { None,
      Some([NoFilter EXCEPT !.language = Some(LangOne(sJpn))]),
      Some([NoFilter EXCEPT !.language = Some(LangOne(<<"k", "o", "r">>))]),
      Some([NoFilter EXCEPT !.dateRange = Some([from |-> Some(<<"1","9","0","6">>),
                                                to |-> None]),
                            !.creator = Some(<<"S", "O">>)]) }

SortPool ==
    { None, Some([field |-> "title", order |-> "asc"]),
      Some([field |-> "date", order |-> "desc"]) }

OptionsPool ==
    {None} \cup
    { Some([NoOptions EXCEPT !.maximumRecords = mr, !.startRecord = sr,
                             !.filter = f, !.sortBy = sb]) :
        mr \in {None, Some(0), Some(2), Some(501)},
        sr \in {None, Some(3), Some(-1)},
        f \in FilterPool, sb \in SortPool }

SearchParamsPool ==
    { MkParams({}, <<>>, <<>>),
      MkParams({"title"}, [k \in {"title"} |-> 1], <<"title">>),
      MkParams({"title"}, [k \in {"title"} |-> 2], <<"title">>),
      MkParams({"isbn"}, [k \in {"isbn"} |-> 2], <<"isbn">>),
      MkParams({"dateRange"}, [k \in {"dateRange"} |-> 2], <<"dateRange">>),
      MkParams({"title", "creator"}, [k \in {"title", "creator"} |-> 1],
               <<"creator", "title">>),
      MkParams({"language"}, [k \in {"language"} |-> 3], <<"language">>),
      MkParams({"title", "exclude"}, [k \in {"title", "exclude"} |->
                                        IF k = "title" THEN 1 ELSE 2],
               <<"title", "exclude">>) }

HttpStatuses == {200, 400, 404, 429, 500, 503}

-----------------------------------------------------------------------------
(* Initial states                                                          *)

CqlIdle == /\ cqlPc = "off" /\ cqlParams = MkParams({}, <<>>, <<>>)
           /\ cqlResult = PendingResult /\ cqlBuilder = None

DiagIdle == diagPc = "off" /\ diagIn = None /\ diagOut = None

PageIdle == /\ pagePc = "off" /\ pageResponse = Response("explain", None, None, <<>>)
            /\ pageRequest = PageRequest(None, None) /\ pageOut = None

EscIdle == escPc = "off" /\ escValue = <<>> /\ escOut = <<>>

\* no builder operation has been applied yet
NoOp == [name |-> "none", arg |-> <<>>]

OpIdle == /\ bldPc = "off" /\ bldA = createCQLBuilder(DefaultOptions)
          /\ bldB = createCQLBuilder(DefaultOptions)
          /\ bldPrev = createCQLBuilder(DefaultOptions)
          /\ bldOp = NoOp /\ bldNegated = None /\ bldSteps = 0
          /\ bldChecked = None

ValIdle == /\ valPc = "off" /\ valBuilder = createCQLBuilder(DefaultOptions)
           /\ valOut = None

BldIdle == EscIdle /\ OpIdle /\ ValIdle

NavIdle == /\ navPc = "off" /\ navTotal = 0 /\ navFirst = 0 /\ navInfo = None
           /\ navPrev = None /\ navVisited = <<>>

\* the two concurrent invocations of searchSRU
Invocations == {1, 2}

\* the local variables of one invocation that has not been called
IdleInvocation ==
    [pc |-> "Idle", searchParams |-> MkParams({}, <<>>, <<>>), options |-> None,
     sruParams |-> None, fetchOutcome |-> None, parsed |-> None,
     result |-> PendingResult]

InvIdle == inv = [i \in Invocations |-> IdleInvocation]

ExtIdle == NavIdle /\ InvIdle

SruInit ==
    /\ pc = "Idle" /\ searchParams = MkParams({}, <<>>, <<>>) /\ options = None
    /\ cqlQuery = None /\ sruParams = None /\ requests = <<>> /\ fetchOutcome = None
    /\ parsed = None /\ structuredDiagnostics = None /\ items = <<>>
    /\ pagination = None /\ result = PendingResult

-----------------------------------------------------------------------------
(* buildSimpleCQLQuery, analyzeSRUDiagnostics and extractSRUPaginationInfo *)
(* called on their own                                                     *)

CallBuildSimpleCQLQuery ==
    /\ cqlPc = "start"
    /\ cqlResult' = buildSimpleCQLQuery(cqlParams)
    /\ cqlBuilder' = SimpleCQLRun(cqlParams).builder
    /\ cqlPc' = "done"
    /\ UNCHANGED <<cqlParams, diagVars, pageVars, sruVars, bldVars, navVars, invVars>>

CqlInit ==
    /\ cqlPc = "start"
    /\ \E S \in { T \in SUBSET ParamKeys : Cardinality(T) <= MaxFields } :
         \E g \in CandChoices(S) : \E order \in KeyOrders(S) :
           cqlParams = MkParams(S, g, order)
    /\ cqlResult = PendingResult /\ cqlBuilder = None
    /\ DiagIdle /\ PageIdle /\ SruInit /\ BldIdle /\ ExtIdle

CqlNext == CallBuildSimpleCQLQuery
SpecCQL == CqlInit /\ [][CqlNext]_vars

CallAnalyzeSRUDiagnostics ==
    /\ diagPc = "start"
    /\ diagOut' = analyzeSRUDiagnostics(diagIn)
    /\ diagPc' = "done"
    /\ UNCHANGED <<diagIn, cqlVars, pageVars, sruVars, bldVars, navVars, invVars>>

DiagInit ==
    /\ diagPc = "start" /\ diagIn \in DiagInputs /\ diagOut = None
    /\ CqlIdle /\ PageIdle /\ SruInit /\ BldIdle /\ ExtIdle

DiagNext == CallAnalyzeSRUDiagnostics
SpecDiag == DiagInit /\ [][DiagNext]_vars

CallExtractSRUPaginationInfo ==
    /\ pagePc = "start"
    /\ pageOut' = Some(extractSRUPaginationInfo(pageResponse, pageRequest))
    /\ pagePc' = "done"
    /\ UNCHANGED <<pageResponse, pageRequest, cqlVars, diagVars, sruVars, bldVars, navVars, invVars>>

PageInit ==
    /\ pagePc = "start"
    /\ \E type \in {"searchRetrieve", "explain"} : \E n \in OptNat(MaxTotal) :
         pageResponse = Response(type, n, None, <<>>)
    /\ \E mr \in OptNat(MaxPerPage) : \E sr \in OptNat(MaxStart) :
         pageRequest = PageRequest(mr, sr)
    /\ pageOut = None
    /\ CqlIdle /\ DiagIdle /\ SruInit /\ BldIdle /\ ExtIdle

PageNext == CallExtractSRUPaginationInfo
SpecPage == PageInit /\ [][PageNext]_vars

-----------------------------------------------------------------------------
(* A caller walking through a result set of navTotal records: it asks for  *)
(* the page named by nextPageParams for as long as hasNextPage is true     *)

PageInfoAt(total, maximumRecords, startRecord) ==
    extractSRUPaginationInfo(Response("searchRetrieve", Some(total), None, <<>>),
                             PageRequest(Some(maximumRecords), Some(startRecord)))

\* `if (pagination.hasNextPage && pagination.nextPageParams)` followed by the
\* search with nextPageParams.maximumRecords and nextPageParams.startRecord
RequestNextPage ==
    /\ navPc = "run"
    /\ Val(navInfo).hasNextPage /\ IsSome(Val(navInfo).nextPageParams)
    /\ LET np == Val(Val(navInfo).nextPageParams)
           info == PageInfoAt(navTotal, np.maximumRecords, np.startRecord)
       IN /\ navInfo' = Some(info)
          /\ navVisited' = Append(navVisited, info.currentPage)
    /\ navPrev' = Some(Val(navInfo).startIndex)
    /\ UNCHANGED <<navPc, navTotal, navFirst, cqlVars, diagVars, pageVars, sruVars,
                   bldVars, invVars>>

NavInit ==
    /\ navPc = "run" /\ navTotal \in 0..MaxTotal /\ navFirst \in 1..MaxStart
    /\ \E mr \in 1..MaxPerPage : navInfo = Some(PageInfoAt(navTotal, mr, navFirst))
    /\ navPrev = None /\ navVisited = << Val(navInfo).currentPage >>
    /\ InvIdle /\ BldIdle /\ CqlIdle /\ DiagIdle /\ PageIdle /\ SruInit

NavNext == RequestNextPage

\* the caller's loop keeps asking while a next page is offered
SpecNav == NavInit /\ [][NavNext]_vars /\ WF_vars(RequestNextPage)

-----------------------------------------------------------------------------
(* escapeValue called on its own                                           *)

MaxValueLen == 3

\* the four escaped characters and one ordinary character
EscAlphabet == {BACKSLASH, QUOTE, "*", "?", "a"}

ValueStrings == UNION { [1..k -> EscAlphabet] : k \in 0..MaxValueLen }

CallEscapeValue ==
    /\ escPc = "start"
    /\ escOut' = escapeValue(escValue)
    /\ escPc' = "done"
    /\ UNCHANGED <<escValue, opVars, valVars, cqlVars, diagVars, pageVars, sruVars,
                   navVars, invVars>>

EscInit ==
    /\ escPc = "start" /\ escValue \in ValueStrings /\ escOut = <<>>
    /\ OpIdle /\ ValIdle /\ CqlIdle /\ DiagIdle /\ PageIdle /\ SruInit /\ ExtIdle

EscNext == CallEscapeValue
SpecEscape == EscInit /\ [][EscNext]_vars

-----------------------------------------------------------------------------
(* validateCQLQuery                                                        *)

Min(a, b) == IF a <= b THEN a ELSE b

\* QueryValidationResultSchema: complexity is a number from 1 to 10
QueryValidationResultSchemaOk(r) ==
    /\ r.isValid \in BOOLEAN
    /\ r.complexity >= 1 /\ r.complexity <= 10

\* \w of a regular expression
WordChars ==
    { UpperLetters[i] : i \in 1..Len(UpperLetters) } \cup
    { LowerLetters[i] : i \in 1..Len(LowerLetters) } \cup Digits \cup {"_"}

\* (query.match(/c/g) || []).length for a single character c
CountChar(q, c) == Cardinality({ i \in 1..Len(q) : q[i] = c })

\* (query.match(/(?<!\\)"/g) || []).length
CountUnescapedQuotes(q) ==
    Cardinality({ i \in 1..Len(q) : q[i] = QUOTE /\ (i = 1 \/ q[i - 1] # BACKSLASH) })

\* (query.match(/\bw\b/gi) || []).length; the word w is given as the sequence
\* of its letters, each in both cases
CountWord(q, w) ==
    Cardinality({ i \in 1..(Len(q) - Len(w) + 1) :
                    /\ \A k \in 1..Len(w) : q[i + k - 1] \in w[k]
                    /\ (i = 1 \/ q[i - 1] \notin WordChars)
                    /\ (i + Len(w) > Len(q) \/ q[i + Len(w)] \notin WordChars) })

validateCQLQuery(query) ==
    LET errors ==
          (IF query = <<>> \/ trim(query) = <<>>
           THEN <<"Query cannot be empty">> ELSE <<>>)
          \o (IF CountChar(query, "(") # CountChar(query, ")")
              THEN <<"Unmatched parentheses in query">> ELSE <<>>)
          \o (IF CountUnescapedQuotes(query) % 2 # 0
              THEN <<"Unmatched quotes in query">> ELSE <<>>)
        andCount == CountWord(query, <<{"a", "A"}, {"n", "N"}, {"d", "D"}>>)
        orCount == CountWord(query, <<{"o", "O"}, {"r", "R"}>>)
        notCount == CountWord(query, <<{"n", "N"}, {"o", "O"}, {"t", "T"}>>)
        complexity == Min(10, 1 + andCount + orCount + (notCount * 2))
        res == [isValid |-> errors = <<>>, query |-> trim(query), errors |-> errors,
                warnings |-> IF complexity > 7 THEN <<"very-complex">> ELSE <<>>,
                complexity |-> complexity]
    IN IF QueryValidationResultSchemaOk(res) THEN ok(res)
       ELSE err(validationError("Query validation failed: ", NoCause))

-----------------------------------------------------------------------------
(* A caller applying builder operations to a builder a, with a second      *)
(* builder b as the argument of and / or                                   *)

MaxOps == 2

vX == <<"X">>
vY == <<"Y">>
vZ == <<"Z">>
vBlank == <<" ">>
vTab == <<"\t">>
vEmpty == <<>>
vHyphens == <<"-", " ", "-">>
vParen == <<"(">>
vBackslash == <<"a", BACKSLASH>>

\* the operation applied last: its method name and the values it was given
Op(name, arg) == [name |-> name, arg |-> arg]

\* createCQLBuilder(options): the configured boolean operator and addParentheses
BuilderOptionsPool ==
    { [DefaultOptions EXCEPT !.defaultOperator = o, !.addParentheses = par] :
        o \in {"AND", "OR"}, par \in BOOLEAN }

\* a starts empty or with two conditions, b empty, with one or with two conditions
BuildersA ==
    { createCQLBuilder(o) : o \in BuilderOptionsPool } \cup
    { subject(title(createCQLBuilder(o), vX), vZ) : o \in BuilderOptionsPool }

BuildersB ==
    { createCQLBuilder(DefaultOptions),
      title(createCQLBuilder(DefaultOptions), vY),
      creator(title(createCQLBuilder([DefaultOptions EXCEPT !.defaultOperator = "OR"]),
                    vY), vZ) }

LanguageArgs ==
    { LangOne(sJpn), LangOne(vBlank), LangMany(<<sJpn, sEng>>),
      LangMany(<<vEmpty, vBlank>>), LangMany(<<>>) }

\* one method call on a, followed by validateCQLQuery(a.build()): a2 is the
\* builder the method leaves behind
Step(op, a2) ==
    /\ bldPc = "run" /\ bldSteps < MaxOps
    /\ bldPrev' = bldA /\ bldA' = a2 /\ bldOp' = op
    /\ bldSteps' = bldSteps + 1
    /\ bldNegated' = IF op.name = "not" /\ Len(bldA.conditions) > 0
                     THEN Some(a2.conditions[1]) ELSE bldNegated
    /\ bldChecked' = Some(validateCQLQuery(build(a2)))
    /\ UNCHANGED <<bldPc, bldB, escVars, valVars, cqlVars, diagVars, pageVars, sruVars,
                   navVars, invVars>>

CallField ==
    \E v \in {vX, vEmpty} :
      Step(Op("field", <<v>>), field(bldA, sDescription, v, "all"))

CallTitle ==
    \E v \in {vX, vBlank, vEmpty, vParen, vBackslash} :
      Step(Op("title", <<v>>), title(bldA, v))

CallCreator ==
    \E v \in {vY, vEmpty} : Step(Op("creator", <<v>>), creator(bldA, v))

CallSubject == \E v \in {vBlank} : Step(Op("subject", <<v>>), subject(bldA, v))

CallPublisher == \E v \in {vTab} : Step(Op("publisher", <<v>>), publisher(bldA, v))

CallIsbn ==
    \E v \in {vBlank, vHyphens} : Step(Op("isbn", <<v>>), isbn(bldA, v))

CallIssn == \E v \in {vBlank} : Step(Op("issn", <<v>>), issn(bldA, v))

CallAnywhere ==
    \E v \in {vX, vBlank} : Step(Op("anywhere", <<v>>), anywhere(bldA, v))

CallLanguage ==
    \E l \in LanguageArgs : Step(Op("language", l.codes), language(bldA, l))

CallAnd == Step(Op("and", <<>>), and(bldA, bldB))

CallOr == Step(Op("or", <<>>), or(bldA, bldB))

CallNot == Step(Op("not", <<>>), not(bldA))

OpInit ==
    /\ bldPc = "run" /\ bldA \in BuildersA /\ bldB \in BuildersB
    /\ bldPrev = bldA /\ bldOp = NoOp /\ bldNegated = None /\ bldSteps = 0
    /\ bldChecked = None
    /\ EscIdle /\ ValIdle /\ CqlIdle /\ DiagIdle /\ PageIdle /\ SruInit /\ ExtIdle

OpNext ==
    \/ CallField \/ CallTitle \/ CallCreator \/ CallSubject \/ CallPublisher
    \/ CallIsbn \/ CallIssn \/ CallAnywhere \/ CallLanguage
    \/ CallAnd \/ CallOr \/ CallNot

SpecBuilder == OpInit /\ [][OpNext]_vars

-----------------------------------------------------------------------------
(* validate() called on a builder holding n conditions                     *)

MaxConditions == 10

\* the two warning texts are named "many-conditions" and "full-text"
validate(b) ==
    LET query == build(b)
        n == Len(b.conditions)
        errors == IF query = <<>> THEN <<"Query is empty">> ELSE <<>>
        many == n > 5
        broad == \E i \in 1..n : includes(b.conditions[i], sAnywhere)
        c0 == Min(10, Max(1, n))
        c1 == IF many THEN Min(10, c0 + 2) ELSE c0
        c2 == IF broad THEN Min(10, c1 + 1) ELSE c1
        res == [isValid |-> errors = <<>>, query |-> query, errors |-> errors,
                warnings |-> (IF many THEN <<"many-conditions">> ELSE <<>>) \o
                             (IF broad THEN <<"full-text">> ELSE <<>>),
                complexity |-> c2]
    IN IF QueryValidationResultSchemaOk(res) THEN ok(res)
       ELSE err(validationError("Query validation failed: ", NoCause))

\* title("X") applied k times
RECURSIVE TitleTimes(_, _)
TitleTimes(b, k) == IF k = 0 THEN b ELSE title(TitleTimes(b, k - 1), vX)

\* builders left by k title conditions, optionally followed by an anywhere
\* condition, by a title condition whose value is the word anywhere, and by not()
ValidatedBuilders ==
    { LET b0 == TitleTimes(createCQLBuilder(DefaultOptions), k)
          b1 == IF free THEN anywhere(b0, vX) ELSE b0
          b2 == IF word THEN title(b1, sAnywhere) ELSE b1
      IN IF neg THEN not(b2) ELSE b2 :
        k \in 0..MaxConditions, free \in BOOLEAN, word \in BOOLEAN, neg \in BOOLEAN }

CallValidate ==
    /\ valPc = "start"
    /\ valOut' = Some(validate(valBuilder))
    /\ valPc' = "done"
    /\ UNCHANGED <<valBuilder, escVars, opVars, cqlVars, diagVars, pageVars, sruVars,
                   navVars, invVars>>

ValInit ==
    /\ valPc = "start" /\ valBuilder \in ValidatedBuilders /\ valOut = None
    /\ EscIdle /\ OpIdle /\ CqlIdle /\ DiagIdle /\ PageIdle /\ SruInit /\ ExtIdle

ValNext == CallValidate
SpecValidate == ValInit /\ [][ValNext]_vars

-----------------------------------------------------------------------------
(* searchSRU, one invocation                                               *)

Fail(e) == pc' = "Failed" /\ result' = err(e)

\* searchSRU(searchParams, options) is called
Call ==
    /\ pc = "Idle"
    /\ searchParams' \in SearchParamsPool
    /\ options' \in OptionsPool
    /\ pc' = "Translating"
    /\ UNCHANGED <<cqlQuery, sruParams, requests, fetchOutcome, parsed,
                   structuredDiagnostics, items, pagination, result,
                   cqlVars, diagVars, pageVars, bldVars, navVars, invVars>>

\* a translation step without the empty-query test
Translate_noShortCircuit ==
    /\ pc = "Translating"
    /\ LET cqlRes == buildSimpleCQLQuery(searchParams) IN
       IF ~cqlRes.isOk
       THEN Fail(Val(cqlRes.error)) /\ UNCHANGED <<cqlQuery, sruParams>>
       ELSE /\ pc' = "Dispatching"
            /\ cqlQuery' = cqlRes.value
            /\ sruParams' = Some(BuildSRUParams(Val(cqlRes.value), options))
            /\ UNCHANGED result
    /\ UNCHANGED <<searchParams, options, requests, fetchOutcome, parsed,
                   structuredDiagnostics, items, pagination,
                   cqlVars, diagVars, pageVars, bldVars, navVars, invVars>>

\* buildSimpleCQLQuery, the empty-query test and the request parameters
Translate ==
    /\ pc = "Translating"
    /\ LET cqlRes == buildSimpleCQLQuery(searchParams) IN
       IF ~cqlRes.isOk
       THEN Fail(Val(cqlRes.error)) /\ UNCHANGED <<cqlQuery, sruParams>>
       ELSE IF Val(cqlRes.value) = <<>>
       THEN /\ pc' = "EmptyShortCircuit"
            /\ cqlQuery' = cqlRes.value
            /\ UNCHANGED <<sruParams, result>>
       ELSE /\ pc' = "Dispatching"
            /\ cqlQuery' = cqlRes.value
            /\ sruParams' = Some(BuildSRUParams(Val(cqlRes.value), options))
            /\ UNCHANGED result
    /\ UNCHANGED <<searchParams, options, requests, fetchOutcome, parsed,
                   structuredDiagnostics, items, pagination,
                   cqlVars, diagVars, pageVars, bldVars, navVars, invVars>>

\* `if (!cqlQuery) return ok({...})`
ReturnEmpty ==
    /\ pc = "EmptyShortCircuit"
    /\ result' = ok(EmptyResponse(options))
    /\ pc' = "Done"
    /\ UNCHANGED <<searchParams, options, cqlQuery, sruParams, requests, fetchOutcome,
                   parsed, structuredDiagnostics, items, pagination,
                   cqlVars, diagVars, pageVars, bldVars, navVars, invVars>>

\* a dispatch that sends the request before it validates the parameters
Dispatch_fetchFirst ==
    /\ pc = "Dispatching"
    /\ requests' = Append(requests, Val(sruParams))
    /\ IF ~SRUSearchRetrieveRequestSchemaOk(Val(sruParams))
       THEN Fail(validationError("invalid-sru-search-parameters",
                                 [NoCause EXCEPT !.kind = "zod"]))
       ELSE pc' = "Fetching" /\ UNCHANGED result
    /\ UNCHANGED <<searchParams, options, cqlQuery, sruParams, fetchOutcome, parsed,
                   structuredDiagnostics, items, pagination,
                   cqlVars, diagVars, pageVars, bldVars, navVars, invVars>>

\* executeSearchRetrieveRaw up to `await fetch(url)`
Dispatch ==
    /\ pc = "Dispatching"
    /\ IF ~SRUSearchRetrieveRequestSchemaOk(Val(sruParams))
       THEN /\ Fail(validationError("invalid-sru-search-parameters",
                                    [NoCause EXCEPT !.kind = "zod"]))
            /\ UNCHANGED requests
       ELSE /\ requests' = Append(requests, Val(sruParams))
            /\ pc' = "Fetching"
            /\ UNCHANGED result
    /\ UNCHANGED <<searchParams, options, cqlQuery, sruParams, fetchOutcome, parsed,
                   structuredDiagnostics, items, pagination,
                   cqlVars, diagVars, pageVars, bldVars, navVars, invVars>>

FetchOutcome(kind, status) == [kind |-> kind, status |-> status]

\* `await fetch(url)` (or response.text()) throws: either a TypeError whose
\* message contains "fetch", or any other exception (a TypeError with another
\* message, an AbortError, ...)
FetchThrows ==
    /\ pc = "Fetching"
    /\ \E kind \in {"TypeError-fetch", "other"} :
         /\ fetchOutcome' = Some(FetchOutcome(kind, 0))
         /\ Fail(CaughtError(kind))
    /\ UNCHANGED <<searchParams, options, cqlQuery, sruParams, requests, parsed,
                   structuredDiagnostics, items, pagination,
                   cqlVars, diagVars, pageVars, bldVars, navVars, invVars>>

\* fetch resolves with a response that is not ok
FetchNotOk ==
    /\ pc = "Fetching"
    /\ \E status \in HttpStatuses :
         /\ ~ResponseOk(status)
         /\ fetchOutcome' = Some(FetchOutcome("response", status))
         /\ Fail(NotOkError(status))
    /\ UNCHANGED <<searchParams, options, cqlQuery, sruParams, requests, parsed,
                   structuredDiagnostics, items, pagination,
                   cqlVars, diagVars, pageVars, bldVars, navVars, invVars>>

\* fetch resolves with an ok response whose text parseSRUResponse rejects
FetchOkUnparsable ==
    /\ pc = "Fetching"
    /\ \E status \in HttpStatuses :
         /\ ResponseOk(status)
         /\ fetchOutcome' = Some(FetchOutcome("response", status))
         /\ Fail(validationError("invalid-sru-response", NoCause))
    /\ UNCHANGED <<searchParams, options, cqlQuery, sruParams, requests, parsed,
                   structuredDiagnostics, items, pagination,
                   cqlVars, diagVars, pageVars, bldVars, navVars, invVars>>

\* fetch resolves with an ok response that parseSRUResponse accepts
FetchOkParsed ==
    /\ pc = "Fetching"
    /\ \E status \in HttpStatuses :
         /\ ResponseOk(status)
         /\ fetchOutcome' = Some(FetchOutcome("response", status))
    /\ parsed' \in { Some(r) : r \in ResponsePool }
    /\ pc' = "Parsed"
    /\ UNCHANGED <<searchParams, options, cqlQuery, sruParams, requests,
                   structuredDiagnostics, items, pagination, result,
                   cqlVars, diagVars, pageVars, bldVars, navVars, invVars>>

\* a diagnostics check that lets every response pass
CheckDiagnostics_ignore ==
    /\ pc = "Parsed"
    /\ IF Val(parsed).type # "searchRetrieve"
       THEN /\ Fail(validationError("expected-searchRetrieve", NoCause))
            /\ UNCHANGED structuredDiagnostics
       ELSE /\ structuredDiagnostics' = StructuredDiagnostics(Val(parsed))
            /\ pc' = "DiagnosticsChecked" /\ UNCHANGED result
    /\ UNCHANGED <<searchParams, options, cqlQuery, sruParams, requests, fetchOutcome,
                   parsed, items, pagination, cqlVars, diagVars, pageVars, bldVars, navVars, invVars>>

\* executeSearchRetrieve: the response type test and the diagnostics check
CheckDiagnostics ==
    /\ pc = "Parsed"
    /\ IF Val(parsed).type # "searchRetrieve"
       THEN /\ Fail(validationError("expected-searchRetrieve", NoCause))
            /\ UNCHANGED structuredDiagnostics
       ELSE /\ structuredDiagnostics' = StructuredDiagnostics(Val(parsed))
            /\ LET diagnosticError ==
                     analyzeSRUDiagnostics(StructuredDiagnostics(Val(parsed)))
               IN IF IsSome(diagnosticError)
                  THEN Fail(Val(diagnosticError))
                  ELSE pc' = "DiagnosticsChecked" /\ UNCHANGED result
    /\ UNCHANGED <<searchParams, options, cqlQuery, sruParams, requests, fetchOutcome,
                   parsed, items, pagination, cqlVars, diagVars, pageVars, bldVars, navVars, invVars>>

\* an extraction step that fails on a record without a title
ExtractItems_failOnBare ==
    /\ pc = "DiagnosticsChecked"
    /\ IF \E i \in 1..Len(Val(parsed).records) : ~Truthy(Val(parsed).records[i].title)
       THEN Fail(validationError("record-without-title", NoCause)) /\ UNCHANGED items
       ELSE /\ items' = extractSRUSearchItems(Val(parsed))
            /\ pc' = "ItemsExtracted"
            /\ UNCHANGED result
    /\ UNCHANGED <<searchParams, options, cqlQuery, sruParams, requests, fetchOutcome,
                   parsed, structuredDiagnostics, pagination,
                   cqlVars, diagVars, pageVars, bldVars, navVars, invVars>>

\* `const items = extractSRUSearchItems(response)`
ExtractItems ==
    /\ pc = "DiagnosticsChecked"
    /\ items' = extractSRUSearchItems(Val(parsed))
    /\ pc' = "ItemsExtracted"
    /\ UNCHANGED <<searchParams, options, cqlQuery, sruParams, requests, fetchOutcome,
                   parsed, structuredDiagnostics, pagination, result,
                   cqlVars, diagVars, pageVars, bldVars, navVars, invVars>>

Paginate ==
    /\ pc = "ItemsExtracted"
    /\ pagination' = Some(extractSRUPaginationInfo(Val(parsed), Val(sruParams)))
    /\ pc' = "Paginated"
    /\ UNCHANGED <<searchParams, options, cqlQuery, sruParams, requests, fetchOutcome,
                   parsed, structuredDiagnostics, items, result,
                   cqlVars, diagVars, pageVars, bldVars, navVars, invVars>>

\* a filter step that reports an error when no item is left
FilterSort_failOnEmpty ==
    /\ pc = "Paginated"
    /\ IF FilterAndSort(options, items) = <<>> /\ items # <<>>
       THEN Fail(validationError("no-item-matches", NoCause)) /\ UNCHANGED items
       ELSE /\ items' = FilterAndSort(options, items)
            /\ pc' = "FilteredSorted"
            /\ UNCHANGED result
    /\ UNCHANGED <<searchParams, options, cqlQuery, sruParams, requests, fetchOutcome,
                   parsed, structuredDiagnostics, pagination,
                   cqlVars, diagVars, pageVars, bldVars, navVars, invVars>>

\* the client-side filtering and sorting of searchSRU
FilterSort ==
    /\ pc = "Paginated"
    /\ items' = FilterAndSort(options, items)
    /\ pc' = "FilteredSorted"
    /\ UNCHANGED <<searchParams, options, cqlQuery, sruParams, requests, fetchOutcome,
                   parsed, structuredDiagnostics, pagination, result,
                   cqlVars, diagVars, pageVars, bldVars, navVars, invVars>>

\* a return that recounts the total from the items left after filtering
Return_recount ==
    /\ pc = "FilteredSorted"
    /\ result' = ok([items |-> items,
                     pagination |-> [Val(pagination) EXCEPT !.totalResults = Len(items)],
                     query |-> [cql |-> Val(sruParams).query,
                                schema |-> Val(sruParams).recordSchema],
                     diagnostics |-> structuredDiagnostics])
    /\ pc' = "Done"
    /\ UNCHANGED <<searchParams, options, cqlQuery, sruParams, requests, fetchOutcome,
                   parsed, structuredDiagnostics, items, pagination,
                   cqlVars, diagVars, pageVars, bldVars, navVars, invVars>>

\* `return ok({...result.value, items})`
Return ==
    /\ pc = "FilteredSorted"
    /\ result' = ok([items |-> items,
                     pagination |-> Val(pagination),
                     query |-> [cql |-> Val(sruParams).query,
                                schema |-> Val(sruParams).recordSchema],
                     diagnostics |-> structuredDiagnostics])
    /\ pc' = "Done"
    /\ UNCHANGED <<searchParams, options, cqlQuery, sruParams, requests, fetchOutcome,
                   parsed, structuredDiagnostics, items, pagination,
                   cqlVars, diagVars, pageVars, bldVars, navVars, invVars>>

Init == SruInit /\ CqlIdle /\ DiagIdle /\ PageIdle /\ BldIdle /\ ExtIdle

Next ==
    \/ Call \/ Translate \/ ReturnEmpty \/ Dispatch
    \/ FetchThrows \/ FetchNotOk \/ FetchOkUnparsable \/ FetchOkParsed
    \/ CheckDiagnostics \/ ExtractItems \/ Paginate \/ FilterSort \/ Return

Spec == Init /\ [][Next]_vars

\* the pc change of FilterSort: under [Next]_vars a step is a FilterSort step
\* exactly when it moves pc from "Paginated" to "FilteredSorted", and such a
\* step is possible exactly when pc = "Paginated"
FilterSortStep == pc = "Paginated" /\ pc' = "FilteredSorted"

\* the same invocation when the runtime keeps running the synchronous code
\* that follows the diagnostics check: each of these steps, once it can be
\* taken, is eventually taken
FairSpec ==
    /\ Init /\ [][Next]_vars
    /\ WF_vars(ExtractItems) /\ WF_vars(Paginate) /\ WF_pc(FilterSortStep)
    /\ WF_vars(Return)

-----------------------------------------------------------------------------
(* Two concurrent invocations of searchSRU.  An invocation runs without    *)
(* interruption from one await to the next: from the call to `await        *)
(* fetch(url)`, from there to `await response.text()`, and from there to   *)
(* its return.  inv[i] holds the local variables of invocation i.          *)

TwoParamsPool ==
    { MkParams({}, <<>>, <<>>),
      MkParams({"title"}, [k \in {"title"} |-> 1], <<"title">>),
      MkParams({"title", "creator"}, [k \in {"title", "creator"} |-> 1],
               <<"title", "creator">>) }

TwoOptionsPool ==
    { None,
      Some([NoOptions EXCEPT !.maximumRecords = Some(2), !.startRecord = Some(3),
                             !.filter = Some([NoFilter EXCEPT
                                                !.language = Some(LangOne(sJpn))]),
                             !.sortBy = Some([field |-> "title", order |-> "asc"])]),
      Some([NoOptions EXCEPT !.maximumRecords = Some(501)]) }

\* what the transport does with one request: fetch throws, or resolves with a
\* status and a body that parseSRUResponse rejects (None) or accepts
TransportOutcome(kind, status, body) == [kind |-> kind, status |-> status, body |-> body]

TwoOutcomes ==
    { TransportOutcome("TypeError-fetch", 0, None),
      TransportOutcome("response", 500, None),
      TransportOutcome("response", 200, None),
      TransportOutcome("response", 200,
                       Some(Response("searchRetrieve", Some(5), None,
                                     <<RecNeko, RecBotchan>>))),
      TransportOutcome("response", 200,
                       Some(Response("searchRetrieve", Some(0), Some(<<DSyntaxMsg>>),
                                     <<>>))),
      TransportOutcome("response", 200, Some(Response("explain", None, None, <<>>))) }

InvFail(l, e) == [l EXCEPT !.pc = "Failed", !.result = err(e)]

\* a first part that takes the query from an invocation already in flight
InvStarted_sharedQuery(l) ==
    LET cqlRes == buildSimpleCQLQuery(l.searchParams) IN
    IF ~cqlRes.isOk THEN InvFail(l, Val(cqlRes.error))
    ELSE IF Val(cqlRes.value) = <<>>
    THEN [l EXCEPT !.pc = "Done", !.result = ok(EmptyResponse(l.options))]
    ELSE LET query == IF \E j \in Invocations : IsSome(inv[j].sruParams)
                      THEN Val(inv[CHOOSE j \in Invocations :
                                     IsSome(inv[j].sruParams)].sruParams).query
                      ELSE Val(cqlRes.value)
             params == BuildSRUParams(query, l.options)
         IN IF ~SRUSearchRetrieveRequestSchemaOk(params)
            THEN InvFail(l, validationError("invalid-sru-search-parameters",
                                            [NoCause EXCEPT !.kind = "zod"]))
            ELSE [l EXCEPT !.pc = "Fetching", !.sruParams = Some(params)]

\* searchSRU from its call to `await fetch(url)`
InvStarted(l) ==
    LET cqlRes == buildSimpleCQLQuery(l.searchParams) IN
    IF ~cqlRes.isOk THEN InvFail(l, Val(cqlRes.error))
    ELSE IF Val(cqlRes.value) = <<>>
    THEN [l EXCEPT !.pc = "Done", !.result = ok(EmptyResponse(l.options))]
    ELSE LET params == BuildSRUParams(Val(cqlRes.value), l.options)
         IN IF ~SRUSearchRetrieveRequestSchemaOk(params)
            THEN InvFail(l, validationError("invalid-sru-search-parameters",
                                            [NoCause EXCEPT !.kind = "zod"]))
            ELSE [l EXCEPT !.pc = "Fetching", !.sruParams = Some(params)]

\* from the settling of fetch to `await response.text()`
InvSettled(l, outcome) ==
    LET l1 == [l EXCEPT !.fetchOutcome = Some(outcome)] IN
    IF outcome.kind # "response" THEN InvFail(l1, CaughtError(outcome.kind))
    ELSE IF ~ResponseOk(outcome.status) THEN InvFail(l1, NotOkError(outcome.status))
    ELSE [l1 EXCEPT !.pc = "ReadingBody"]

\* from the body text to the return of searchSRU
InvResumed(l) ==
    LET body == Val(l.fetchOutcome).body IN
    IF ~IsSome(body) THEN InvFail(l, validationError("invalid-sru-response", NoCause))
    ELSE LET response == Val(body)
             l1 == [l EXCEPT !.parsed = body]
         IN IF response.type # "searchRetrieve"
            THEN InvFail(l1, validationError("expected-searchRetrieve", NoCause))
            ELSE LET diagnosticError ==
                       analyzeSRUDiagnostics(StructuredDiagnostics(response))
                 IN IF IsSome(diagnosticError) THEN InvFail(l1, Val(diagnosticError))
                    ELSE [l1 EXCEPT
                            !.pc = "Done",
                            !.result =
                              ok([items |-> FilterAndSort(l.options,
                                                          extractSRUSearchItems(response)),
                                  pagination |->
                                    extractSRUPaginationInfo(response, Val(l.sruParams)),
                                  query |-> [cql |-> Val(l.sruParams).query,
                                             schema |-> Val(l.sruParams).recordSchema],
                                  diagnostics |-> StructuredDiagnostics(response)])]

InvStart(i) ==
    /\ inv[i].pc = "Called"
    /\ inv' = [inv EXCEPT ![i] = InvStarted(inv[i])]
    /\ UNCHANGED <<cqlVars, diagVars, pageVars, sruVars, bldVars, navVars>>

InvFetchSettles(i) ==
    /\ inv[i].pc = "Fetching"
    /\ \E outcome \in TwoOutcomes : inv' = [inv EXCEPT ![i] = InvSettled(inv[i], outcome)]
    /\ UNCHANGED <<cqlVars, diagVars, pageVars, sruVars, bldVars, navVars>>

InvResume(i) ==
    /\ inv[i].pc = "ReadingBody"
    /\ inv' = [inv EXCEPT ![i] = InvResumed(inv[i])]
    /\ UNCHANGED <<cqlVars, diagVars, pageVars, sruVars, bldVars, navVars>>

\* both invocations have been called, neither has run yet
TwoInit ==
    /\ inv \in [Invocations ->
                 { [IdleInvocation EXCEPT !.pc = "Called", !.searchParams = p,
                                          !.options = o] :
                     p \in TwoParamsPool, o \in TwoOptionsPool }]
    /\ NavIdle /\ BldIdle /\ CqlIdle /\ DiagIdle /\ PageIdle /\ SruInit

TwoNext == \E i \in Invocations : InvStart(i) \/ InvFetchSettles(i) \/ InvResume(i)

SpecTwo == TwoInit /\ [][TwoNext]_vars

-----------------------------------------------------------------------------
(* Properties of searchSRU                                                 *)

IsValidationFailure ==
    /\ pc = "Failed" /\ ~result.isOk /\ IsSome(result.error)
    /\ Val(result.error).type = "validation"

\* C1: a request is sent only after the translation and the validation of the
\* request parameters have succeeded; when either fails the invocation is
\* Failed with a validation error and no request was sent.
C1_ValidationBeforeDispatch ==
    /\ requests # <<>> =>
         /\ SimpleSearchParamsSchemaOk(searchParams)
         /\ IsSome(sruParams)
         /\ SRUSearchRetrieveRequestSchemaOk(Val(sruParams))
    /\ (pc \notin {"Idle", "Translating"} /\ ~SimpleSearchParamsSchemaOk(searchParams))
         => (IsValidationFailure /\ requests = <<>>)
    /\ (pc \notin {"Idle", "Translating", "Dispatching"} /\ IsSome(sruParams)
        /\ ~SRUSearchRetrieveRequestSchemaOk(Val(sruParams)))
         => (IsValidationFailure /\ requests = <<>>)

C1_Witness ==
    /\ pc = "Failed" /\ requests = <<>>
    /\ IsSome(sruParams) /\ ~SRUSearchRetrieveRequestSchemaOk(Val(sruParams))
    /\ Val(result.error).type = "validation"

C3_DiagnosticsAreFailures ==
    (/\ IsSome(parsed) /\ Val(parsed).type = "searchRetrieve" /\ pc # "Parsed"
     /\ IsSome(analyzeSRUDiagnostics(StructuredDiagnostics(Val(parsed)))))
      => /\ pc = "Failed"
         /\ result = err(Val(analyzeSRUDiagnostics(StructuredDiagnostics(Val(parsed)))))
         /\ items = <<>> /\ pagination = None

C3_Witness ==
    /\ pc = "Failed" /\ IsSome(parsed) /\ Val(parsed).type = "searchRetrieve"
    /\ IsSome(fetchOutcome) /\ ResponseOk(Val(fetchOutcome).status)
    /\ Val(parsed).records # <<>>
    /\ Val(result.error).type = "query_syntax"

-----------------------------------------------------------------------------
(* Properties of analyzeSRUDiagnostics                                     *)

SyntaxMarker(d) ==
    includes(UriOf(d), sQuerySyntax) \/ includes(toLowerCase(d.message), sSyntax)
FeatureMarker(d) ==
    includes(UriOf(d), sQueryFeature) \/ includes(toLowerCase(d.message), sUnsupported)
ResultSetMarker(d) ==
    includes(UriOf(d), sResultset) \/ includes(toLowerCase(d.message), sResult)
CodeAtLeast10(d) ==
    IsSome(d.code) /\ IsSome(parseInt(Val(d.code))) /\ Val(parseInt(Val(d.code))) >= 10
MatchesSomeRule(d) ==
    SyntaxMarker(d) \/ FeatureMarker(d) \/ ResultSetMarker(d) \/ CodeAtLeast10(d)

\* the category and message the priority order gives a matching diagnostic
ExpectedType(d) ==
    IF SyntaxMarker(d) \/ FeatureMarker(d) THEN "query_syntax" ELSE "sru_diagnostic"
ExpectedPrefix(d) ==
    IF SyntaxMarker(d) THEN "cql-syntax-error"
    ELSE IF FeatureMarker(d) THEN "unsupported-feature"
    ELSE IF ResultSetMarker(d) THEN "result-processing-error"
    ELSE "search-error-code"

FirstMatch(ds) ==
    CHOOSE k \in 1..Len(ds) :
      MatchesSomeRule(ds[k]) /\ \A j \in 1..(k - 1) : ~MatchesSomeRule(ds[j])

\* C4: the first diagnostic in list order that matches a rule decides the
\* classification, by the priority syntax, unsupported feature, result set,
\* code >= 10; no later diagnostic overrides it.
C4_FirstMatchDecides ==
    (/\ diagPc = "done" /\ IsSome(diagIn)
     /\ \E k \in 1..Len(Val(diagIn)) : MatchesSomeRule(Val(diagIn)[k]))
      => LET d == Val(diagIn)[FirstMatch(Val(diagIn))] IN
         /\ IsSome(diagOut)
         /\ Val(diagOut).type = ExpectedType(d)
         /\ Val(diagOut).prefix = ExpectedPrefix(d)
         /\ Val(diagOut).text = d.message
         /\ Val(diagOut).cause.diagnostic = Some(d)

C4_Witness ==
    /\ diagPc = "done" /\ IsSome(diagIn) /\ Len(Val(diagIn)) = 2
    /\ ~SyntaxMarker(Val(diagIn)[1]) /\ CodeAtLeast10(Val(diagIn)[1])
    /\ ~ResultSetMarker(Val(diagIn)[1]) /\ ~FeatureMarker(Val(diagIn)[1])
    /\ SyntaxMarker(Val(diagIn)[2])
    /\ Val(diagOut).type = "sru_diagnostic"

\* C5: the classifier returns null exactly for an absent or empty list; for a
\* non-empty list in which no diagnostic matches a rule it returns the generic
\* ServiceDiagnostic error built from the first diagnostic.
C5_NullIffEmpty ==
    diagPc = "done" =>
      /\ (diagOut = None) <=> (~IsSome(diagIn) \/ Val(diagIn) = <<>>)
      /\ (/\ IsSome(diagIn) /\ Val(diagIn) # <<>>
          /\ \A k \in 1..Len(Val(diagIn)) : ~MatchesSomeRule(Val(diagIn)[k]))
           => /\ IsSome(diagOut)
              /\ Val(diagOut).type = "sru_diagnostic"
              /\ Val(diagOut).prefix = "search-processing-error"
              /\ Val(diagOut).text = Val(diagIn)[1].message
              /\ Val(diagOut).cause.diagnostic = Some(Val(diagIn)[1])

C5_Witness ==
    /\ diagPc = "done" /\ IsSome(diagIn) /\ Len(Val(diagIn)) = 2
    /\ \A k \in 1..2 : ~MatchesSomeRule(Val(diagIn)[k])
    /\ Val(diagIn)[1].message # Val(diagIn)[2].message
    /\ Val(diagOut).text = Val(diagIn)[1].message

-----------------------------------------------------------------------------
(* Properties of extractSRUPaginationInfo                                  *)

\* C6: for totalResults >= 0, itemsPerPage >= 1 and startIndex >= 1 the
\* returned state has currentPage = floor((startIndex - 1) / itemsPerPage) + 1,
\* totalPages = ceil(totalResults / itemsPerPage), hasNextPage =
\* (currentPage < totalPages) and hasPreviousPage = (currentPage > 1).  Floor
\* and ceiling are stated by their defining inequalities.
C6_PageArithmetic ==
    (pagePc = "done" /\ IsSome(pageOut)) =>
      LET st == Val(pageOut) IN
      (st.totalResults >= 0 /\ st.itemsPerPage >= 1 /\ st.startIndex >= 1) =>
        /\ (st.currentPage - 1) * st.itemsPerPage <= st.startIndex - 1
        /\ st.startIndex - 1 < st.currentPage * st.itemsPerPage
        /\ (st.totalPages - 1) * st.itemsPerPage < st.totalResults
        /\ st.totalResults <= st.totalPages * st.itemsPerPage
        /\ st.hasNextPage = (st.currentPage < st.totalPages)
        /\ st.hasPreviousPage = (st.currentPage > 1)

\* C7: nextPageParams is present exactly when currentPage < totalPages and is
\* then {startIndex + itemsPerPage, itemsPerPage}; previousPageParams is
\* present exactly when currentPage > 1 and is then
\* {max(1, startIndex - itemsPerPage), itemsPerPage}.
C7_PageParams ==
    (pagePc = "done" /\ IsSome(pageOut)) =>
      LET st == Val(pageOut) IN
      /\ IsSome(st.nextPageParams) <=> (st.currentPage < st.totalPages)
      /\ IsSome(st.nextPageParams) =>
           Val(st.nextPageParams) =
             [startRecord |-> st.startIndex + st.itemsPerPage,
              maximumRecords |-> st.itemsPerPage]
      /\ IsSome(st.previousPageParams) <=> (st.currentPage > 1)
      /\ IsSome(st.previousPageParams) =>
           Val(st.previousPageParams) =
             [startRecord |-> IF st.startIndex - st.itemsPerPage > 1
                              THEN st.startIndex - st.itemsPerPage ELSE 1,
              maximumRecords |-> st.itemsPerPage]

C7_Witness ==
    /\ pagePc = "done" /\ IsSome(pageOut)
    /\ IsSome(Val(pageOut).nextPageParams) /\ IsSome(Val(pageOut).previousPageParams)
    /\ Val(pageOut).itemsPerPage = 2 /\ Val(pageOut).startIndex = 3
    /\ Val(Val(pageOut).nextPageParams).startRecord = 5
    /\ Val(Val(pageOut).previousPageParams).startRecord = 1

-----------------------------------------------------------------------------
(* Properties of buildSimpleCQLQuery                                       *)

AllAbsent(p) == \A k \in ParamKeys : p[k] = None

\* C8: when every field of the input is absent the result is Ok("").
C8_AllAbsentIsEmptyQuery ==
    (cqlPc = "done" /\ AllAbsent(cqlParams)) => cqlResult = ok(<<>>)

C8_Witness ==
    cqlPc = "done" /\ AllAbsent(cqlParams) /\ cqlResult.isOk /\ cqlResult.value = Some(<<>>)

\* the keys of an object, in one order that does not depend on how it was written
KeySeq == FieldOrder \o <<"jpno", "exclude">>
CanonOrder(p) ==
    LET present(k) == p[k] # None IN SelectSeq(KeySeq, present)

\* 1-based position of the first occurrence of sub in s, 0 when there is none
FirstIndex(s, sub) ==
    IF ~includes(s, sub) THEN 0
    ELSE CHOOSE i \in 1..Len(s) :
           /\ SubSeq(s, i, i + Len(sub) - 1) = sub
           /\ \A j \in 1..(i - 1) : SubSeq(s, j, j + Len(sub) - 1) # sub

FieldName(k) ==
    CASE k = "title" -> sTitle [] k = "creator" -> sCreator
      [] k = "subject" -> sSubject [] k = "publisher" -> sPublisher
      [] k = "isbn" -> sIsbn [] k = "issn" -> sIssn
      [] k = "language" -> sLanguage [] k = "type" -> sType
      [] k = "anywhere" -> sAnywhere [] k = "description" -> sDescription

\* where the condition of field k starts in query q (0: nowhere)
ConditionStart(q, k) ==
    IF k = "dateRange"
    THEN LET f == FirstIndex(q, sFrom \o <<"=", QUOTE>>)
             u == FirstIndex(q, sUntil \o <<"=", QUOTE>>)
         IN IF f = 0 THEN u ELSE IF u = 0 THEN f ELSE IF f < u THEN f ELSE u
    ELSE FirstIndex(q, FieldName(k) \o <<"=", QUOTE>>)

\* field k of the input contributes a condition
Contributes(p, k) ==
    CASE k = "language" -> IsSome(p.language) /\ Val(p.language).codes # <<>>
      [] k = "dateRange" -> IsSome(p.dateRange)
      [] OTHER -> IsSome(p[k]) /\ trim(Val(p[k])) # <<>>

sTitleXAndCreatorY ==
    sTitle \o <<"=", QUOTE, "X", QUOTE>> \o sAND \o sCreator \o <<"=", QUOTE, "Y", QUOTE>>

\* C9: the result does not depend on the order of the keys of the input; the
\* conditions of the present fields appear in the order title, creator,
\* subject, publisher, isbn, issn, language, dateRange, type, anywhere,
\* description; creator "Y" written before title "X" yields
\* title="X" AND creator="Y".
C9_FixedFieldOrder ==
    cqlPc = "done" =>
      /\ cqlResult = buildSimpleCQLQuery([cqlParams EXCEPT !.order = CanonOrder(cqlParams)])
      /\ cqlResult.isOk =>
           \A i, j \in 1..Len(FieldOrder) :
             (/\ i < j
              /\ Contributes(cqlParams, FieldOrder[i])
              /\ Contributes(cqlParams, FieldOrder[j]))
               => /\ 0 < ConditionStart(Val(cqlResult.value), FieldOrder[i])
                  /\ ConditionStart(Val(cqlResult.value), FieldOrder[i])
                       < ConditionStart(Val(cqlResult.value), FieldOrder[j])
      /\ (/\ cqlParams.order = <<"creator", "title">>
          /\ cqlParams.title = Some(<<"X">>) /\ cqlParams.creator = Some(<<"Y">>))
           => cqlResult = ok(sTitleXAndCreatorY)

C9_Witness ==
    /\ cqlPc = "done"
    /\ cqlParams.order = <<"creator", "title">>
    /\ cqlParams.title = Some(<<"X">>) /\ cqlParams.creator = Some(<<"Y">>)
    /\ cqlResult.isOk /\ Val(cqlResult.value) = sTitleXAndCreatorY

\* the input breaks one of the constraints the claim names
ViolatesConstraint(p) ==
    \/ IsSome(p.isbn) /\ ~IsbnPatternOk(Val(p.isbn))
    \/ IsSome(p.issn) /\ ~IssnPatternOk(Val(p.issn))
    \/ /\ IsSome(p.dateRange)
       /\ IsSome(Val(p.dateRange).from) /\ IsSome(Val(p.dateRange).to)
       /\ strLt(Val(Val(p.dateRange).to), Val(Val(p.dateRange).from))

\* C10: an input with an ISBN or ISSN that does not match its pattern, or with
\* a dateRange whose from is greater than its to, yields a validation error
\* and no query string, and no builder has been created by then.
C10_ConstraintViolationRejected ==
    (cqlPc = "done" /\ ViolatesConstraint(cqlParams)) =>
      /\ ~cqlResult.isOk
      /\ cqlResult.value = None
      /\ IsSome(cqlResult.error) /\ Val(cqlResult.error).type = "validation"
      /\ cqlBuilder = None

C10_Witness ==
    /\ cqlPc = "done"
    /\ IsSome(cqlParams.issn) /\ ~IssnPatternOk(Val(cqlParams.issn))
    /\ Contributes(cqlParams, "title")
    /\ ~cqlResult.isOk /\ Val(cqlResult.error).type = "validation"
    /\ cqlBuilder = None

\* the input without its exclude key
WithoutExclude(p) ==
    LET notExclude(k) == k # "exclude" IN
    [p EXCEPT !.exclude = None, !.order = SelectSeq(p.order, notExclude)]

\* the conditions an exclude object asks for, written name="value"
PlainCondition(name, v) == name \o <<"=", QUOTE>> \o v \o <<QUOTE>>
ExpectedExcludeConditions(ex) ==
    (IF IsSome(ex.title) /\ trim(Val(ex.title)) # <<>>
     THEN << PlainCondition(sTitle, Val(ex.title)) >> ELSE <<>>)
    \o (IF IsSome(ex.creator) /\ trim(Val(ex.creator)) # <<>>
        THEN << PlainCondition(sCreator, Val(ex.creator)) >> ELSE <<>>)
    \o (IF IsSome(ex.language) /\ Len(Val(ex.language).codes) = 1
        THEN << PlainCondition(sLanguage, Val(ex.language).codes[1]) >> ELSE <<>>)
    \o (IF IsSome(ex.type) THEN << PlainCondition(sType, Val(ex.type)) >> ELSE <<>>)

-----------------------------------------------------------------------------
(* Properties of the transport boundary and of the phases of searchSRU     *)

\* C12: when dispatch obtains no 2xx response, status 429 yields a rate-limit
\* error, every other non-2xx status an API error carrying that status, and
\* every exception raised by the fetch call a network error.
C12_TransportErrorMapping ==
    (pc = "Failed" /\ IsSome(fetchOutcome)) =>
      LET o == Val(fetchOutcome)
          e == Val(result.error)
      IN /\ (o.kind = "response" /\ o.status = 429) => e.type = "rate_limit"
         /\ (o.kind = "response" /\ ~ResponseOk(o.status) /\ o.status # 429)
              => (e.type = "api" /\ e.cause.status = o.status)
         /\ o.kind # "response" => e.type = "network"

\* the step fails the invocation
EntersFailed == pc # "Failed" /\ pc' = "Failed"

\* the diagnostics check of the parsed response found an error
DiagnosticsFailure ==
    /\ IsSome(parsed) /\ Val(parsed).type = "searchRetrieve"
    /\ IsSome(analyzeSRUDiagnostics(StructuredDiagnostics(Val(parsed))))

\* the parsed response is not a searchRetrieve response
UnexpectedResponseType == IsSome(parsed) /\ Val(parsed).type # "searchRetrieve"

PassedDiagnostics ==
    pc \in {"DiagnosticsChecked", "ItemsExtracted", "Paginated", "FilteredSorted"}

\* C13 as stated: Failed is entered only from translation, from dispatch
\* (request validation, transport, response parsing) or by the diagnostics
\* check; an invocation whose response has been parsed fails only because of
\* its diagnostics, and after the diagnostics check it reaches Done with Ok.
C13_FailedOnlyFromThreePhases ==
    /\ [][EntersFailed =>
            \/ pc \in {"Translating", "Dispatching", "Fetching"}
            \/ pc = "Parsed" /\ DiagnosticsFailure]_vars
    /\ PassedDiagnostics ~> (pc = "Done" /\ result.isOk)

\* C13, amended: a parsed response that is not a searchRetrieve response also
\* fails the invocation, with a validation error, before the diagnostics are
\* looked at; these are all the ways into Failed, and after the diagnostics
\* check the invocation reaches Done with an Ok result.
C13_FailedOrigins ==
    /\ [][EntersFailed =>
            \/ pc \in {"Translating", "Dispatching", "Fetching"}
            \/ pc = "Parsed" /\ DiagnosticsFailure
            \/ /\ pc = "Parsed" /\ UnexpectedResponseType
               /\ Val(result'.error).type = "validation"]_vars
    /\ [][PassedDiagnostics => pc' # "Failed"]_vars
    /\ PassedDiagnostics ~> (pc = "Done" /\ result.isOk)

C13_Witness ==
    /\ pc = "Failed" /\ UnexpectedResponseType
    /\ IsSome(fetchOutcome) /\ ResponseOk(Val(fetchOutcome).status)
    /\ Val(result.error).type = "validation"

\* the item passes every filter that is present
ItemMatches(f, item) ==
    /\ IsSome(f.language) => LanguageKeep(Val(f.language), item)
    /\ IsSome(f.dateRange) => DateRangeKeep(Val(f.dateRange), item)
    /\ Truthy(f.creator) => CreatorKeep(Val(f.creator), item)

\* a filter is given and none of the extracted items passes it
NothingMatches ==
    /\ IsSome(parsed) /\ IsSome(OptionField(options, "filter"))
    /\ \A i \in 1..Len(extractSRUSearchItems(Val(parsed))) :
         ~ItemMatches(Val(OptionField(options, "filter")),
                      extractSRUSearchItems(Val(parsed))[i])

\* C14: the filter-and-sort step never fails, whatever the items, filters and
\* sort options are; when no item passes the filter the invocation returns Ok
\* with zero items.
C14_FilterSortNeverFails ==
    /\ [][pc = "Paginated" => pc' = "FilteredSorted"]_vars
    /\ []((pc = "Done" /\ IsSome(pagination)) => result.isOk)
    /\ []((pc \in {"FilteredSorted", "Done"} /\ NothingMatches) =>
            /\ items = <<>>
            /\ pc = "Done" => (result.isOk /\ Val(result.value).items = <<>>))

C14_Witness ==
    /\ pc = "Done" /\ NothingMatches
    /\ extractSRUSearchItems(Val(parsed)) # <<>>
    /\ IsSome(OptionField(options, "sortBy"))
    /\ result.isOk /\ Val(result.value).items = <<>>

-----------------------------------------------------------------------------
(* Claims about the builder on its own                                     *)

SpecialChars == {BACKSLASH, QUOTE, "*", "?"}

\* reversing the escaping: the backslash in front of an escaped character is dropped
RECURSIVE unescape(_)
unescape(s) ==
    IF s = <<>> THEN <<>>
    ELSE IF s[1] = BACKSLASH /\ Len(s) >= 2
    THEN <<s[2]>> \o unescape(SubSeq(s, 3, Len(s)))
    ELSE <<s[1]>> \o unescape(Tail(s))

\* every special character prefixed by one backslash, every other character kept
RECURSIVE PrefixedOnce(_)
PrefixedOnce(v) ==
    IF v = <<>> THEN <<>>
    ELSE (IF v[1] \in SpecialChars THEN <<BACKSLASH, v[1]>> ELSE <<v[1]>>)
         \o PrefixedOnce(Tail(v))

\* C15: reversing the escaping of escapeValue(v) gives v back, and escapeValue(v)
\* is v with exactly one backslash put in front of each backslash, double quote,
\* '*' and '?' (no character is escaped twice).
C15_EscapeRoundTrip ==
    escPc = "done" =>
      /\ unescape(escOut) = escValue
      /\ escOut = PrefixedOnce(escValue)
      /\ Len(escOut) =
           Len(escValue) + Cardinality({i \in 1..Len(escValue) : escValue[i] \in SpecialChars})

C15_Witness ==
    /\ escPc = "done"
    /\ escValue = <<"a", QUOTE, BACKSLASH>>
    /\ escOut = <<"a", BACKSLASH, QUOTE, BACKSLASH, BACKSLASH>>
    /\ unescape(escOut) = escValue

Parenthesized(e) == <<"(">> \o e \o <<")">>

\* C16: after a.and(b), with parenthesization enabled and whatever boolean
\* operator a was configured with: both sides non-empty gives a.build() =
\* "(A) AND (B)"; only b non-empty leaves b's expression B, unparenthesized, as
\* a's content; b empty leaves a unchanged.
C16_AndCombines ==
    (bldOp.name = "and" /\ bldPrev.options.addParentheses) =>
      LET A == build(bldPrev)
          B == build(bldB)
      IN IF A # <<>> /\ B # <<>>
         THEN build(bldA) = Parenthesized(A) \o sAND \o Parenthesized(B)
         ELSE IF B # <<>>
         THEN bldA.conditions = <<B>> /\ build(bldA) = B
         ELSE bldA = bldPrev

\* C17: after a.or(b): both sides non-empty replaces a's list by the single
\* entry "(A) OR (B)", which is what a.build() returns; b empty leaves a
\* unchanged; only a empty appends b's expression to a.
C17_OrCombines ==
    bldOp.name = "or" =>
      LET A == build(bldPrev)
          B == build(bldB)
      IN IF A # <<>> /\ B # <<>>
         THEN /\ bldA.conditions = << Parenthesized(A) \o sOR \o Parenthesized(B) >>
              /\ build(bldA) = Parenthesized(A) \o sOR \o Parenthesized(B)
         ELSE IF B = <<>>
         THEN bldA = bldPrev
         ELSE bldA.conditions = <<B>>

C17_Witness ==
    /\ bldOp.name = "or"
    /\ Len(bldPrev.conditions) = 2 /\ Len(bldB.conditions) = 2
    /\ bldPrev.options.defaultOperator = "AND"
    /\ Len(bldA.conditions) = 1
    /\ includes(build(bldA), <<")">> \o sOR \o <<"(">>)

\* C18: not() on a non-empty builder replaces the list by the single entry
\* "NOT (J)", J being the previous list joined with the builder's operator; on
\* an empty builder nothing changes and build() is still ""; whatever is applied
\* afterwards keeps the negated entry intact inside the built query.
C18_NotNegates ==
    /\ bldOp.name = "not" =>
         IF Len(bldPrev.conditions) > 0
         THEN bldA.conditions =
                << sNOT \o Parenthesized(join(bldPrev.conditions, OperatorSep(bldPrev))) >>
         ELSE bldA = bldPrev /\ build(bldA) = <<>>
    /\ IsSome(bldNegated) =>
         /\ Len(bldA.conditions) > 0
         /\ includes(bldA.conditions[1], Val(bldNegated))

C18_Witness ==
    /\ bldOp.name = "and" /\ Len(bldA.conditions) = 2
    /\ bldNegated =
         Some(sNOT \o Parenthesized(sTitle \o <<"=", QUOTE, "X", QUOTE>> \o sOR \o
                                    sSubject \o <<"=", QUOTE, "Z", QUOTE>>))
    /\ bldA.conditions[1] = Parenthesized(Val(bldNegated))

\* empty or whitespace-only
IsBlank(v) == trim(v) = <<>>

ValueMethods ==
    {"field", "title", "creator", "subject", "publisher", "isbn", "issn",
     "language", "anywhere"}

\* C19: an operation given only empty or whitespace-only values (field, title,
\* creator, subject, publisher, isbn, issn, anywhere, language with one or with
\* several values) leaves the accumulated condition list unchanged.
C19_BlankValueDropped ==
    (/\ bldOp.name \in ValueMethods
     /\ Len(bldOp.arg) > 0
     /\ \A i \in 1..Len(bldOp.arg) : IsBlank(bldOp.arg[i]))
      => bldA.conditions = bldPrev.conditions

\* the condition is a search on the anywhere field (auto-escape leaves an
\* unescaped quote only where a value starts or ends)
TargetsAnywhere(c) == includes(c, sAnywhere \o <<"=", QUOTE>>)

\* C20: with n accumulated conditions validate() returns complexity
\* min(10, max(1, n)) plus 2 if n > 5 plus 1 if some condition targets the
\* anywhere field, capped at 10; the many-conditions warning is present exactly
\* when n > 5, the free-text warning exactly when some condition targets the
\* anywhere field, and isValid is false exactly when the built string is empty.
C20_ValidateComplexity ==
    valPc = "done" =>
      LET n == Len(valBuilder.conditions)
          free == \E i \in 1..n : TargetsAnywhere(valBuilder.conditions[i])
          expected == Min(10, Min(10, Max(1, n)) + (IF n > 5 THEN 2 ELSE 0)
                                                + (IF free THEN 1 ELSE 0))
          res == Val(valOut)
          r == Val(res.value)
      IN /\ res.isOk
         /\ r.complexity = expected
         /\ (\E i \in 1..Len(r.warnings) : r.warnings[i] = "many-conditions") <=> n > 5
         /\ (\E i \in 1..Len(r.warnings) : r.warnings[i] = "full-text") <=> free
         /\ r.isValid <=> build(valBuilder) # <<>>

-----------------------------------------------------------------------------
(* Further properties of buildSimpleCQLQuery                               *)

\* date >= "v" and date <= "v"
DateAtLeast(v) == <<"d", "a", "t", "e", " ", ">", "=", " ", QUOTE>> \o v \o <<QUOTE>>
DateAtMost(v) == <<"d", "a", "t", "e", " ", "<", "=", " ", QUOTE>> \o v \o <<QUOTE>>

BothBounds(p) ==
    /\ IsSome(p.dateRange)
    /\ Truthy(Val(p.dateRange).from) /\ Truthy(Val(p.dateRange).to)

\* C21: a dateRange with both bounds F and T puts the single condition
\* (date >= "F" AND date <= "T") into the query, so the query that searchSRU
\* echoes contains date >= "F" and date <= "T".
C21_DateRangeCondition ==
    (cqlPc = "done" /\ cqlResult.isOk /\ BothBounds(cqlParams)) =>
      LET F == Val(Val(cqlParams.dateRange).from)
          T == Val(Val(cqlParams.dateRange).to)
          q == Val(cqlResult.value)
      IN /\ includes(q, <<"(">> \o DateAtLeast(F) \o sAND \o DateAtMost(T) \o <<")">>)
         /\ includes(q, DateAtLeast(F)) /\ includes(q, DateAtMost(T))

BlankString(o) == o = None \/ trim(Val(o)) = <<>>

BlankLanguage(o) ==
    o = None \/ \A i \in 1..Len(Val(o).codes) : trim(Val(o).codes[i]) = <<>>

BlankExclude(o) ==
    \/ o = None
    \/ /\ BlankString(Val(o).title) /\ BlankString(Val(o).creator)
       /\ BlankString(Val(o).subject) /\ BlankLanguage(Val(o).language)
       /\ BlankString(Val(o).type)

\* every field accepted by SimpleSearchParams is absent or blank
AllBlank(p) ==
    /\ \A k \in {"title", "creator", "subject", "publisher", "isbn", "issn", "jpno",
                  "type", "anywhere", "description"} : BlankString(p[k])
    /\ BlankLanguage(p.language)
    /\ p.dateRange = None \/ (~Truthy(Val(p.dateRange).from) /\ ~Truthy(Val(p.dateRange).to))
    /\ BlankExclude(p.exclude)

\* C27: buildSimpleCQLQuery returns the empty string only if every accepted
\* field, jpno and the fields of exclude included, is absent or blank.
C27_EmptyOnlyIfAllBlank ==
    (cqlPc = "done" /\ cqlResult.isOk /\ Val(cqlResult.value) = <<>>)
      => AllBlank(cqlParams)

\* the text of a field condition: a name taking part in = " or in a word operator
HasFieldCondition(q) ==
    \/ includes(q, <<"=", QUOTE>>)
    \/ \E w \in {<<"a", "d", "j">>, <<"a", "l", "l">>, <<"a", "n", "y">>} :
         includes(q, <<" ">> \o w \o <<" ", QUOTE>>)

\* C28: a non-empty query returned by buildSimpleCQLQuery holds at least one
\* field condition and no empty group "()"; an empty language list contributes
\* no condition.
C28_NoEmptyGroup ==
    (cqlPc = "done" /\ cqlResult.isOk /\ Val(cqlResult.value) # <<>>) =>
      /\ HasFieldCondition(Val(cqlResult.value))
      /\ ~includes(Val(cqlResult.value), <<"(", ")">>)

-----------------------------------------------------------------------------
(* Further properties of searchSRU                                         *)

CarriesDiagnostic(response) ==
    IsSome(response.diagnostics) /\ Val(response.diagnostics) # <<>>

C24_OkPaginationInRange ==
    (pc = "Done" /\ result.isOk) =>
      LET pg == Val(result.value).pagination
      IN /\ pg.itemsPerPage >= 1 /\ pg.itemsPerPage <= MaxMaximumRecords
         /\ pg.startIndex >= 1

-----------------------------------------------------------------------------
(* Further properties of extractSRUPaginationInfo                          *)

\* C25: whenever hasNextPage is true the offered nextPageParams.startRecord is
\* at most totalResults, for every startIndex >= 1 and itemsPerPage >= 1,
\* page-aligned or not.
C25_NextPageHasRecord ==
    (/\ pagePc = "done" /\ pageResponse.type = "searchRetrieve"
     /\ Val(pageOut).startIndex >= 1 /\ Val(pageOut).itemsPerPage >= 1
     /\ Val(pageOut).hasNextPage)
      => Val(Val(pageOut).nextPageParams).startRecord <= Val(pageOut).totalResults

-----------------------------------------------------------------------------
(* Builder output against validateCQLQuery                                 *)

\* C29: a non-empty query built with auto-escape enabled, for any non-blank
\* values and any sequence of field, and, or and not operations, is accepted by
\* validateCQLQuery: isValid is true.
C29_BuiltQueryIsValid ==
    (IsSome(bldChecked) /\ bldA.options.autoEscape /\ build(bldA) # <<>>)
      => Val(bldChecked).isOk /\ Val(Val(bldChecked).value).isValid

-----------------------------------------------------------------------------
(* Walking through the pages                                               *)

\* C26: with totalResults and itemsPerPage fixed, each request of
\* nextPageParams raises currentPage by exactly 1 and a page with hasNextPage
\* false is reached; from startRecord 1 the pages visited are 1, 2, ... up to
\* totalPages, each once; previousPageParams of a page reached this way names
\* the startRecord of the page before it.
C26_PageWalk ==
    /\ [][Val(navInfo').currentPage = Val(navInfo).currentPage + 1]_navInfo
    /\ <>(navPc = "run" /\ ~Val(navInfo).hasNextPage)
    /\ [](navPc = "run" /\ navFirst = 1 =>
            /\ \A i \in 1..Len(navVisited) : navVisited[i] = i
            /\ ~Val(navInfo).hasNextPage =>
                 Len(navVisited) = Max(1, Val(navInfo).totalPages))
    /\ [](navPc = "run" /\ IsSome(navPrev) =>
            /\ Val(navInfo).hasPreviousPage
            /\ Val(Val(navInfo).previousPageParams).startRecord = Val(navPrev))

C26_Witness ==
    /\ navPc = "run" /\ navFirst = 1 /\ navTotal = 9
    /\ Val(navInfo).itemsPerPage = 2
    /\ navVisited = <<1, 2, 3, 4, 5>>
    /\ ~Val(navInfo).hasNextPage
    /\ navPrev = Some(7)

-----------------------------------------------------------------------------
(* Frame of the client-side filtering and sorting                          *)

\* how often x occurs in the list
Occurrences(list, x) == Cardinality({ i \in 1..Len(list) : list[i] = x })

ListElements(list) == { list[i] : i \in 1..Len(list) }

\* C30: filtering and sorting change only the items: the returned items are
\* the extracted items that pass the filter, each as often as it was extracted
\* and in some order; pagination, query and diagnostics are those computed
\* from the response before filtering.
C30_FilterSortFrame ==
    (pc = "Done" /\ result.isOk /\ IsSome(parsed)) =>
      LET extracted == extractSRUSearchItems(Val(parsed))
          out == Val(result.value)
          f == OptionField(options, "filter")
          kept(x) == IsSome(f) => ItemMatches(Val(f), x)
      IN /\ \A x \in ListElements(extracted) \cup ListElements(out.items) :
              Occurrences(out.items, x) =
                IF kept(x) THEN Occurrences(extracted, x) ELSE 0
         /\ (~IsSome(f) /\ ~IsSome(OptionField(options, "sortBy")))
              => out.items = extracted
         /\ out.pagination = extractSRUPaginationInfo(Val(parsed), Val(sruParams))
         /\ out.pagination.totalResults = OrDefault(Val(parsed).numberOfRecords, 0)
         /\ out.query = [cql |-> Val(cqlQuery), schema |-> Val(sruParams).recordSchema]
         /\ out.diagnostics = StructuredDiagnostics(Val(parsed))

C30_Witness ==
    /\ pc = "Done" /\ result.isOk /\ IsSome(parsed)
    /\ IsSome(OptionField(options, "filter")) /\ IsSome(OptionField(options, "sortBy"))
    /\ Len(extractSRUSearchItems(Val(parsed))) = 3
    /\ Len(Val(result.value).items) = 1
    /\ Val(result.value).pagination.totalResults = 5

-----------------------------------------------------------------------------
(* Independence of concurrent invocations                                  *)

\* the result of one invocation that runs with nothing else going on: outcome
\* is what the transport did with its request, None if it sent none
RunAlone(p, o, outcome) ==
    LET cqlRes == buildSimpleCQLQuery(p)
        params == BuildSRUParams(Val(cqlRes.value), o)
    IN IF ~cqlRes.isOk THEN cqlRes
       ELSE IF Val(cqlRes.value) = <<>> THEN ok(EmptyResponse(o))
       ELSE IF ~SRUSearchRetrieveRequestSchemaOk(params)
       THEN err(validationError("invalid-sru-search-parameters",
                                [NoCause EXCEPT !.kind = "zod"]))
       ELSE IF Val(outcome).kind # "response" THEN err(CaughtError(Val(outcome).kind))
       ELSE IF ~ResponseOk(Val(outcome).status) THEN err(NotOkError(Val(outcome).status))
       ELSE IF ~IsSome(Val(outcome).body)
       THEN err(validationError("invalid-sru-response", NoCause))
       ELSE LET response == Val(Val(outcome).body)
                diagnostics == StructuredDiagnostics(response)
            IN IF response.type # "searchRetrieve"
               THEN err(validationError("expected-searchRetrieve", NoCause))
               ELSE IF IsSome(analyzeSRUDiagnostics(diagnostics))
               THEN err(Val(analyzeSRUDiagnostics(diagnostics)))
               ELSE ok([items |-> FilterAndSort(o, extractSRUSearchItems(response)),
                        pagination |-> extractSRUPaginationInfo(response, params),
                        query |-> [cql |-> params.query,
                                   schema |-> params.recordSchema],
                        diagnostics |-> diagnostics])

Returned(i) == inv[i].pc \in {"Done", "Failed"}

\* C22: under every interleaving of two invocations each one returns what it
\* would return alone against the same transport outcome, and a step of one
\* invocation changes nothing of the other.
C22_InvocationsIndependent ==
    /\ [](\A i \in Invocations :
            Returned(i) =>
              inv[i].result =
                RunAlone(inv[i].searchParams, inv[i].options, inv[i].fetchOutcome))
    /\ [][\A i \in Invocations :
            inv'[i] # inv[i] => \A j \in Invocations \ {i} : inv'[j] = inv[j]]_inv

C22_Witness ==
    /\ Returned(1) /\ Returned(2)
    /\ inv[1].result.isOk /\ inv[2].result.isOk
    /\ IsSome(inv[1].sruParams) /\ IsSome(inv[2].sruParams)
    /\ Val(inv[1].sruParams).query # Val(inv[2].sruParams).query
    /\ Val(inv[1].result.value).items # Val(inv[2].result.value).items

====
